---- MODULE Spec2Model ----
(***************************************************************************)
(* Model of the single-polygon pipeline of location2kml                    *)
(* (utils/geometryUtils.ts: ensureSinglePolygon and bridgeMultiPolygon).   *)
(*                                                                         *)
(* A coordinate is a pair <<x, y>> of integers.  A ring is a sequence of   *)
(* coordinates, a polygon a sequence of rings (outer ring first), and a    *)
(* geometry a record [type, coordinates].  JavaScript indices are 0-based; *)
(* the operators below keep the 0-based indices of the source and add 1    *)
(* where a TLA+ sequence is indexed.                                       *)
(***************************************************************************)
EXTENDS Integers, Sequences, FiniteSets, TLC

(* ------------------------------ bounds --------------------------------- *)

\* largest number of parts of an input MultiPolygon
MaxPolys == 3

\* largest number of holes of an input polygon
MaxHoles == 1

\* longest of the short rings of the nearest-pair search run alone
MaxShortLen == 6

\* longest ring of the nearest-pair search run alone
MaxScanLen == 2503

\* most rings of a polygon given to toKML
MaxKmlRings == 2

\* most parts of a MultiPolygon given to toKML
MaxParts == 2

\* most placemarks of a document given to parseKML
MaxPlacemarks == 2

\* calls of handleKMLUpload in one run of the App
MaxUploads == 2

\* changes of editMode in one run of the App
MaxToggles == 2

\* calls of handleSearchResult in one run of the App
MaxSearches == 2

\* vertex drags in one run of the App
MaxDrags == 1

\* searches submitted in the Sidebar in one run
MaxQueries == 3

\* search results and uploads together in one run of the layer list
MaxAdds == 3
MaxEditSteps == 2

(* ------------------------- program constants --------------------------- *)

\* ring length above which the nearest-pair search samples the ring
SampleThreshold == 1000

\* divisor that gives the sampling stride of a long ring
SampleDivisor == 500

\* turf.polygon and the ring filter: fewest positions of a linear ring
MinRingLen == 4

\* the test's copy of bridgeMultiPolygon: ring length above which it samples
MockThreshold == 2000

\* the test's copy of bridgeMultiPolygon: divisor of its sampling stride
MockDivisor == 1000

\* the test: positions of each of its two rings (5000 and the closing one)
TestRingLen == 5001

\* generateColor: the colors of the palette
PaletteSize == 8

(* ----------------------------- input rings ----------------------------- *)

\* ring A of the two-squares scenario
RingA == << <<0, 0>>, <<1, 0>>, <<1, 1>>, <<0, 1>>, <<0, 0>> >>

\* ring B of the two-squares scenario
RingB == << <<10, 0>>, <<11, 0>>, <<11, 1>>, <<10, 1>>, <<10, 0>> >>

\* a closed triangle of 4 positions, larger than the unit squares
RingT == << <<20, 0>>, <<26, 0>>, <<20, 6>>, <<20, 0>> >>

\* a closed triangle of 4 positions, larger than RingT
RingG == << <<40, 0>>, <<50, 0>>, <<40, 10>>, <<40, 0>> >>

\* a closed ring of 3 positions (degenerate)
RingS3 == << <<60, 0>>, <<61, 0>>, <<60, 0>> >>

\* an open ring of 4 positions (last position differs from the first)
RingU == << <<70, 0>>, <<73, 0>>, <<73, 3>>, <<70, 3>> >>

\* a closed hole of 4 positions inside RingT
HoleH == << <<21, 1>>, <<22, 1>>, <<21, 2>>, <<21, 1>> >>

\* a closed hole of 3 positions (degenerate)
HoleS3 == << <<21, 3>>, <<22, 3>>, <<21, 3>> >>

\* an open hole of 4 positions inside RingT
HoleU == << <<23, 1>>, <<24, 1>>, <<24, 2>>, <<23, 2>> >>

\* the outer rings an input polygon can have
OuterRings == {RingA, RingB, RingT, RingG, RingS3, RingU}

\* the holes that lie inside an outer ring, in the order an input lists them
HolesIn(o) == IF o = RingT THEN <<HoleH, HoleS3, HoleU>> ELSE << >>

\* rings the buffer/union/shrink/simplify stage can produce: new coordinates,
\* closed, at least 4 positions
BackRing1 == << <<100, 0>>, <<108, 0>>, <<100, 8>>, <<100, 0>> >>

BackRing2 == << <<120, 0>>, <<122, 0>>, <<120, 2>>, <<120, 0>> >>

BackHole == << <<101, 1>>, <<102, 1>>, <<101, 2>>, <<101, 1>> >>

(* --------------------------- sequences --------------------------------- *)

\* Array.prototype.slice(from, to) for 0 <= from, to (0-based, to exclusive)
Slice(arr, from, to) ==
    LET hi == IF to > Len(arr) THEN Len(arr) ELSE to
    IN  IF from >= hi THEN << >> ELSE SubSeq(arr, from + 1, hi)

\* Array.prototype.slice(from)
SliceFrom(arr, from) == Slice(arr, from, Len(arr))

\* all sequences over S of length 0..n
SeqsUpTo(S, n) == UNION {[1..k -> S] : k \in 0..n}

\* the sub-sequences of at most n elements of a list (order kept)
RECURSIVE SubSeqsUpTo(_, _)
SubSeqsUpTo(list, n) ==
    IF list = << >> \/ n = 0 THEN {<< >>}
    ELSE SubSeqsUpTo(Tail(list), n)
         \cup {<<Head(list)>> \o rest : rest \in SubSeqsUpTo(Tail(list), n - 1)}


(* ------------------------- geometry helpers ---------------------------- *)

Polygon(coords) == [type |-> "Polygon", coordinates |-> coords]

MultiPolygon(coords) == [type |-> "MultiPolygon", coordinates |-> coords]

\* variant of EmptyResult: a Polygon with one empty ring
EmptyResultOneRing == Polygon(<< << >> >>)

\* ensureSinglePolygon's result when no polygon was extracted
EmptyResult == Polygon(<< >>)

\* bridgeMultiPolygon's result when no polygon is left after the ring filter
BridgeEmptyResult == Polygon(<< << >> >>)

\* the value of a variable that holds no geometry yet
NoGeometry == [type |-> "None", coordinates |-> << >>]

\* variant of FlattenPolygons: a Polygon whose only ring is empty is not visited
FlattenPolygonsSkipEmpty(g) ==
    IF g.type = "Polygon"
    THEN (IF g.coordinates = << << >> >> THEN << >> ELSE <<g.coordinates>>)
    ELSE IF g.type = "MultiPolygon" THEN g.coordinates
    ELSE << >>

\* turf.flattenEach with a callback that keeps the coordinates of every
\* Polygon: a Polygon is visited once, a MultiPolygon once per part
FlattenPolygons(g) ==
    IF g.type = "Polygon" THEN <<g.coordinates>>
    ELSE IF g.type = "MultiPolygon" THEN g.coordinates
    ELSE << >>

\* variant of ValidRings: the filter keeps a ring only above 4 positions
RECURSIVE ValidRingsStrict(_)
ValidRingsStrict(rings) ==
    IF rings = << >> THEN << >>
    ELSE IF Len(Head(rings)) > MinRingLen
         THEN <<Head(rings)>> \o ValidRingsStrict(Tail(rings))
         ELSE ValidRingsStrict(Tail(rings))

\* feature.geometry.coordinates.filter(ring => ring.length >= 4)
RECURSIVE ValidRings(_)
ValidRings(rings) ==
    IF rings = << >> THEN << >>
    ELSE IF Len(Head(rings)) >= MinRingLen
         THEN <<Head(rings)>> \o ValidRings(Tail(rings))
         ELSE ValidRings(Tail(rings))

\* the flattenEach callback of bridgeMultiPolygon: each part keeps its rings
\* of at least 4 positions, and a part left without a ring is dropped
RECURSIVE FilterPolygons(_)
FilterPolygons(polys) ==
    IF polys = << >> THEN << >>
    ELSE LET validRings == ValidRings(Head(polys))
         IN  IF Len(validRings) > 0
             THEN <<validRings>> \o FilterPolygons(Tail(polys))
             ELSE FilterPolygons(Tail(polys))

\* turf.polygon throws unless every ring has at least 4 positions and its
\* last position equals its first
TurfPolygonThrows(rings) ==
    \E k \in 1..Len(rings) :
        \/ Len(rings[k]) < MinRingLen
        \/ rings[k][Len(rings[k])] # rings[k][1]

Abs(n) == IF n < 0 THEN -n ELSE n

\* turf.area's ringArea: the sum over the ring, closing position left out,
\* of (upper.x - lower.x) * sin(middle.y); the sine is taken at first order
\* (sin y = y), which gives twice the planar shoelace area, and the constant
\* factor R^2/2 is dropped
RECURSIVE RingAreaFrom(_, _, _)
RingAreaFrom(coords, coordsLength, i) ==
    IF i >= coordsLength THEN 0
    ELSE LET lower  == coords[i + 1]
             middle == coords[(IF i + 1 = coordsLength THEN 0 ELSE i + 1) + 1]
             upper  == coords[(IF i + 2 >= coordsLength
                               THEN (i + 2) % coordsLength ELSE i + 2) + 1]
         IN  (upper[1] - lower[1]) * middle[2]
             + RingAreaFrom(coords, coordsLength, i + 1)

RingArea(coords) ==
    LET coordsLength == Len(coords) - 1
    IN  IF coordsLength <= 2 THEN 0 ELSE RingAreaFrom(coords, coordsLength, 0)

\* turf.area(turf.polygon([ring])): a polygon without holes
OuterArea(ring) == Abs(RingArea(ring))

(* --------------------------- area ranking ------------------------------ *)

\* polygons.map(p => ({coordinates: p, area: turf.area(turf.polygon([p[0]]))}))
RECURSIVE RankPolygons(_)
RankPolygons(polys) ==
    IF polys = << >> THEN << >>
    ELSE <<[coordinates |-> Head(polys), area |-> OuterArea(Head(polys)[1])]>>
         \o RankPolygons(Tail(polys))

\* variant of RankThrows: turf.polygon is given the polygon with its holes
RankThrowsWithHoles(polys) == \E k \in 1..Len(polys) : TurfPolygonThrows(polys[k])

\* the map above throws when turf.polygon rejects an outer ring
RankThrows(polys) == \E k \in 1..Len(polys) : TurfPolygonThrows(<<polys[k][1]>>)

\* variant of CompareArea: ascending order
CompareAreaAscending(a, b) == a.area - b.area

\* the comparator (a, b) => b.area - a.area: a negative value keeps a first
CompareArea(a, b) == b.area - a.area

\* variant of InsertSorted: e goes before the entries it compares equal to
RECURSIVE InsertSortedUnstable(_, _)
InsertSortedUnstable(sorted, e) ==
    IF sorted = << >> THEN <<e>>
    ELSE IF CompareArea(Head(sorted), e) < 0
         THEN <<Head(sorted)>> \o InsertSortedUnstable(Tail(sorted), e)
         ELSE <<e>> \o sorted

\* one insertion of the stable sort: e goes behind every entry that the
\* comparator does not put after it
RECURSIVE InsertSorted(_, _)
InsertSorted(sorted, e) ==
    IF sorted = << >> THEN <<e>>
    ELSE IF CompareArea(Head(sorted), e) <= 0
         THEN <<Head(sorted)>> \o InsertSorted(Tail(sorted), e)
         ELSE <<e>> \o sorted

\* variant of SortByArea: the list is left in input order
SortByAreaSkipped(ranked) == ranked

\* Array.prototype.sort with the comparator above (stable)
RECURSIVE SortByArea(_)
SortByArea(ranked) ==
    IF ranked = << >> THEN << >>
    ELSE InsertSorted(SortByArea(SubSeq(ranked, 1, Len(ranked) - 1)),
                      ranked[Len(ranked)])

(* ------------------------ nearest-pair search -------------------------- *)

\* variant of Stride: every ring is scanned exhaustively
StrideExhaustive(len) == 1

\* stepT / stepS
Stride(len) ==
    IF len > SampleThreshold THEN len \div SampleDivisor ELSE 1

\* stepT / stepS of the test's copy of bridgeMultiPolygon
MockStride(len) ==
    IF len > MockThreshold THEN len \div MockDivisor ELSE 1

\* dx * dx + dy * dy
DistSq(p1, p2) ==
    LET dx == p1[1] - p2[1]
        dy == p1[2] - p2[2]
    IN  dx * dx + dy * dy

\* the state of the search: minDistSq (-1 stands for Infinity), trunkIdx, subIdx
InitBest == [minDistSq |-> -1, trunkIdx |-> 0, subIdx |-> 0]

\* the best pair so far
BestStates == [minDistSq : Int, trunkIdx : Nat, subIdx : Nat]

\* the two nested for loops: t runs over the trunk by stepT and, for each t,
\* s runs over the sub-ring by stepS; a pair replaces the best one only when
\* d2 < minDistSq
ScanPairs(trunkRing, subRing, stepT, stepS) ==
    LET inner[x \in [t : Nat, s : Nat, best : BestStates]] ==
            IF x.s >= Len(subRing) THEN x.best
            ELSE LET d2 == DistSq(trunkRing[x.t + 1], subRing[x.s + 1])
                 IN  IF x.best.minDistSq = -1 \/ d2 < x.best.minDistSq
                     THEN inner[[t |-> x.t, s |-> x.s + stepS,
                                 best |-> [minDistSq |-> d2, trunkIdx |-> x.t,
                                           subIdx |-> x.s]]]
                     ELSE inner[[t |-> x.t, s |-> x.s + stepS, best |-> x.best]]
        outer[x \in [t : Nat, best : BestStates]] ==
            IF x.t >= Len(trunkRing) THEN x.best
            ELSE outer[[t |-> x.t + stepT,
                        best |-> inner[[t |-> x.t, s |-> 0, best |-> x.best]]]]
    IN  outer[[t |-> 0, best |-> InitBest]]

NearestPair(trunkRing, subRing) ==
    ScanPairs(trunkRing, subRing, Stride(Len(trunkRing)), Stride(Len(subRing)))

(* ------------------------------ splice --------------------------------- *)

\* variant of Splice: the trunk is not resumed after the sub-ring
SpliceNoResume(trunkRing, subRing, tIdx, sIdx) ==
    Slice(trunkRing, 0, tIdx + 1) \o SliceFrom(subRing, sIdx)
    \o Slice(subRing, 0, sIdx + 1)

\* variant of Splice: the trunk is cut before the bridge position
SpliceCutBefore(trunkRing, subRing, tIdx, sIdx) ==
    Slice(trunkRing, 0, tIdx) \o SliceFrom(subRing, sIdx)
    \o Slice(subRing, 0, sIdx + 1) \o SliceFrom(trunkRing, tIdx)

\* variant of Splice: the sub-ring does not return to its bridge position
SpliceSubOpen(trunkRing, subRing, tIdx, sIdx) ==
    Slice(trunkRing, 0, tIdx + 1) \o SliceFrom(subRing, sIdx)
    \o Slice(subRing, 0, sIdx) \o SliceFrom(trunkRing, tIdx)

\* [...trunk.slice(0, trunkIdx + 1), ...subPolyRing.slice(subIdx),
\*  ...subPolyRing.slice(0, subIdx + 1), ...trunk.slice(trunkIdx)]
Splice(trunkRing, subRing, tIdx, sIdx) ==
    Slice(trunkRing, 0, tIdx + 1) \o SliceFrom(subRing, sIdx)
    \o Slice(subRing, 0, sIdx + 1) \o SliceFrom(trunkRing, tIdx)

(* ------------------------------ inputs --------------------------------- *)

\* input polygons: an outer ring followed by up to MaxHoles holes that lie
\* inside it, or no ring at all
InputPolygons ==
    {<< >>} \cup UNION {{<<o>> \o hs : hs \in SubSeqsUpTo(HolesIn(o), MaxHoles)} : o \in OuterRings}

\* input geometries: a Polygon, or a MultiPolygon of up to MaxPolys parts
InputGeometries ==
    {Polygon(p) : p \in InputPolygons}
    \cup {MultiPolygon(ps) : ps \in SeqsUpTo(InputPolygons, MaxPolys)}

Modes == {"accurate", "approximate"}

\* geometries turf.simplify(shrunk).geometry can be: rings of the buffered
\* outline, closed and of at least 4 positions, in one part or several
BackfillOutcomes ==
    { Polygon(<<BackRing1>>),
      Polygon(<<BackRing1, BackHole>>),
      MultiPolygon(<< <<BackRing2>>, <<BackRing1, BackHole>> >>) }

(* ------------------------------- state --------------------------------- *)

VARIABLES
    geojson,           \* the argument of ensureSinglePolygon
    mode,              \* 'accurate' | 'approximate'
    pc,                \* position in the pipeline
    polygons,          \* polygons extracted by ensureSinglePolygon
    processedGeoJson,  \* the geometry handed to bridgeMultiPolygon
    warned,            \* console.warn("Backfill failed, ...") was called
    sortedPolys,       \* bridgeMultiPolygon: polygons ranked by area
    trunk,             \* bridgeMultiPolygon: the trunk ring
    trunkHoles,        \* bridgeMultiPolygon: holes of the largest polygon
    i,                 \* bridgeMultiPolygon: loop index
    trunkIdx,          \* bridge index chosen by the last splice (trunk side)
    subIdx,            \* bridge index chosen by the last splice (sub side)
    result,            \* the returned geometry
    pass,              \* 1: first call of ensureSinglePolygon, 2: the call on its result
    firstResult,       \* what the first call returned, once it is called again
    trunkLen,          \* nearest-pair search alone: trunk.length
    subLen,            \* nearest-pair search alone: subPolyRing.length
    stepT,             \* stride over the trunk
    stepS,             \* stride over the incoming ring
    scanT,             \* the loop variable t
    scanS,             \* the loop variable s
    minDistSq,         \* smallest squared distance so far (-1 stands for Infinity)
    visitedT,          \* trunk indices visited so far
    visitedS,          \* indices of the incoming ring visited for the current t
    kmlInput,          \* serializer alone: the geometry of the Feature given to toKML
    kmlDoc,            \* serializer alone: the document parseKML is given
    kmlFeatures,       \* serializer alone: what parseKML returned
    layers,            \* App: the state variable layers
    selectedLayerId,   \* App: the state variable selectedLayerId
    editMode,          \* App: the state variable editMode, as last rendered
    effectPending,     \* App: the effect of [editMode] has yet to run
    reads,             \* App: file reads in flight, each with its onload closure
    uploads,           \* App: calls of handleKMLUpload so far
    toggles,           \* App: changes of editMode so far
    alerted,           \* App: the message of the last alert, "" for none
    turfBackfill,      \* App: what the turf calls of the backfill do in this run
    featurePending,    \* MapComponent: the effect of [feature] has yet to run
    searches,          \* App: calls of handleSearchResult so far
    downloaded,        \* App: the file of the last download
    isEditModeActive,  \* App: the state variable isEditModeActive
    editedPoints,      \* App: the state variable editedPoints
    mapPoints,         \* MapComponent: the state variable points
    drags,             \* MapComponent: vertex drags so far
    query,             \* Sidebar: the state variable query
    requests,          \* Sidebar: searches whose fetch has yet to settle
    results,           \* Sidebar: the search whose results are shown
    loading,           \* Sidebar: the state variable loading
    submitted          \* Sidebar: searches submitted so far

bridgeVars == <<sortedPolys, trunk, trunkHoles, i, trunkIdx, subIdx>>

\* the caller's variables: a second call of ensureSinglePolygon on its result
rerunVars == <<pass, firstResult>>

\* the nearest-pair search of one splice step, run loop pass by loop pass
scanVars == <<trunkLen, subLen, stepT, stepS, scanT, scanS, minDistSq,
              visitedT, visitedS>>

\* toKML and parseKML run alone
kmlVars == <<kmlInput, kmlDoc, kmlFeatures>>

\* the state of the App component and of its callbacks in flight
appVars == <<layers, selectedLayerId, editMode, effectPending, reads, uploads,
             toggles, alerted, turfBackfill>>

\* vertex editing: the App's part of it and the MapComponent's
editVars == <<isEditModeActive, editedPoints, mapPoints, drags>>

\* the state of the Sidebar's search
sidebarVars == <<query, requests, results, loading, submitted>>

\* what no upload, onload or mode change touches
restVars == <<searches, downloaded, editVars, sidebarVars>>

\* the variables of the user interface
uiVars == <<appVars, featurePending, restVars>>

\* the variables of the specifications that do not run the pipeline
sideVars == <<scanVars, kmlVars, uiVars>>

\* what no step of ensureSinglePolygon or bridgeMultiPolygon touches
outerVars == <<rerunVars, sideVars>>

vars == <<geojson, mode, pc, polygons, processedGeoJson, warned, sortedPolys,
          trunk, trunkHoles, i, trunkIdx, subIdx, result, outerVars>>

\* the nearest-pair search alone is not running
ScanIdle ==
    /\ trunkLen = 0
    /\ subLen = 0
    /\ stepT = 0
    /\ stepS = 0
    /\ scanT = 0
    /\ scanS = 0
    /\ minDistSq = -1
    /\ visitedT = 0
    /\ visitedS = 0

\* no document: the value of kmlDoc before toKML has returned
NoDocument == [wellFormed |-> FALSE, kmlNamespace |-> FALSE, placemarks |-> << >>]

\* toKML and parseKML alone are not running
KmlIdle ==
    /\ kmlInput = NoGeometry
    /\ kmlDoc = NoDocument
    /\ kmlFeatures = << >>

\* useState<string | null>(null): the value that stands for null (the id of
\* a layer is a pair)
NoSelection == << >>

\* editedPoints: null, or a list of [lat, lng] points
NullPoints == [null |-> TRUE, list |-> << >>]

SomePoints(list) == [null |-> FALSE, list |-> list]

\* no file has been downloaded
NoDownload == [name |-> "", features |-> 0]

\* useState([]) of results: the data of no search
NoResults == [n |-> 0, q |-> ""]

\* no search result added, no download, vertex editing off, no search
UiIdle ==
    /\ searches = 0
    /\ downloaded = NoDownload
    /\ isEditModeActive = FALSE
    /\ editedPoints = NullPoints
    /\ mapPoints = << >>
    /\ drags = 0
    /\ query = ""
    /\ requests = {}
    /\ results = NoResults
    /\ loading = FALSE
    /\ submitted = << >>

\* the App component is not mounted
AppIdle ==
    /\ layers = << >>
    /\ selectedLayerId = NoSelection
    /\ editMode = "accurate"
    /\ effectPending = FALSE
    /\ reads = {}
    /\ uploads = 0
    /\ toggles = 0
    /\ alerted = ""
    /\ turfBackfill = NoGeometry
    /\ featurePending = FALSE
    /\ UiIdle

Init ==
    /\ geojson \in InputGeometries
    /\ mode \in Modes
    /\ pc = "start"
    /\ ScanIdle
    /\ KmlIdle
    /\ AppIdle
    /\ polygons = << >>
    /\ processedGeoJson = NoGeometry
    /\ warned = FALSE
    /\ sortedPolys = << >>
    /\ trunk = << >>
    /\ trunkHoles = << >>
    /\ i = 0
    /\ trunkIdx = 0
    /\ subIdx = 0
    /\ result = NoGeometry
    /\ pass = 1
    /\ firstResult = NoGeometry

(* ------------------------ ensureSinglePolygon -------------------------- *)

\* step 1: flatten, the two early returns, and the MultiPolygon wrapper
Extract ==
    /\ pc = "start"
    /\ LET extracted == FlattenPolygons(geojson)
       IN  /\ polygons' = extracted
           /\ IF Len(extracted) = 0
              THEN /\ result' = EmptyResult
                   /\ pc' = "done"
                   /\ UNCHANGED processedGeoJson
              ELSE IF Len(extracted) = 1 /\ mode = "accurate"
              THEN /\ result' = Polygon(extracted[1])
                   /\ pc' = "done"
                   /\ UNCHANGED processedGeoJson
              ELSE /\ processedGeoJson' = MultiPolygon(extracted)
                   /\ pc' = IF mode = "approximate" THEN "backfill" ELSE "bridge"
                   /\ UNCHANGED result
    /\ UNCHANGED <<geojson, mode, warned, bridgeVars>>
    /\ UNCHANGED outerVars

\* step 2, buffer, union, shrink and simplify all return: the simplified
\* geometry replaces the working geometry
BackfillApplied(out) ==
    /\ pc = "backfill"
    /\ processedGeoJson' = out
    /\ pc' = "bridge"
    /\ UNCHANGED <<geojson, mode, polygons, warned, bridgeVars, result>>
    /\ UNCHANGED outerVars

\* step 2, turf.buffer returns undefined (if (buffered) / if (shrunk) is
\* false): the working geometry is kept and nothing is logged
BackfillEmpty ==
    /\ pc = "backfill"
    /\ pc' = "bridge"
    /\ UNCHANGED <<geojson, mode, polygons, processedGeoJson, warned,
                   bridgeVars, result>>
    /\ UNCHANGED outerVars

\* step 2, a turf call throws: the catch block logs the warning and the
\* working geometry is kept
BackfillThrows ==
    /\ pc = "backfill"
    /\ warned' = TRUE
    /\ pc' = "bridge"
    /\ UNCHANGED <<geojson, mode, polygons, processedGeoJson, bridgeVars, result>>
    /\ UNCHANGED outerVars

(* ------------------------- bridgeMultiPolygon -------------------------- *)

\* flatten and filter, the two early returns, ranking and the loop set-up;
\* an exception of turf.polygon leaves the function (and its caller)
BridgeStart ==
    /\ pc = "bridge"
    /\ LET valid == FilterPolygons(FlattenPolygons(processedGeoJson))
       IN  IF Len(valid) = 0
           THEN /\ result' = BridgeEmptyResult
                /\ pc' = "done"
                /\ UNCHANGED bridgeVars
           ELSE IF Len(valid) = 1
           THEN /\ result' = Polygon(valid[1])
                /\ pc' = "done"
                /\ UNCHANGED bridgeVars
           ELSE IF RankThrows(valid)
           THEN /\ pc' = "threw"
                /\ UNCHANGED <<result, bridgeVars>>
           ELSE LET sorted == SortByArea(RankPolygons(valid))
                IN  /\ sortedPolys' = sorted
                    /\ trunk' = sorted[1].coordinates[1]
                    /\ trunkHoles' = SliceFrom(sorted[1].coordinates, 1)
                    /\ i' = 1
                    /\ pc' = "splice"
                    /\ UNCHANGED <<result, trunkIdx, subIdx>>
    /\ UNCHANGED <<geojson, mode, polygons, processedGeoJson, warned>>
    /\ UNCHANGED outerVars

\* one iteration of the for loop: nearest pair, then the splice
SpliceStep ==
    /\ pc = "splice"
    /\ i < Len(sortedPolys)
    /\ LET subPolyRing == sortedPolys[i + 1].coordinates[1]
           best == NearestPair(trunk, subPolyRing)
       IN  /\ trunkIdx' = best.trunkIdx
           /\ subIdx' = best.subIdx
           /\ trunk' = Splice(trunk, subPolyRing, best.trunkIdx, best.subIdx)
    /\ i' = i + 1
    /\ UNCHANGED <<geojson, mode, pc, polygons, processedGeoJson, warned,
                   sortedPolys, trunkHoles, result>>
    /\ UNCHANGED outerVars

\* the loop is over: return {type: 'Polygon', coordinates: [trunk, ...trunkHoles]}
BridgeReturn ==
    /\ pc = "splice"
    /\ i >= Len(sortedPolys)
    /\ result' = Polygon(<<trunk>> \o trunkHoles)
    /\ pc' = "done"
    /\ UNCHANGED <<geojson, mode, polygons, processedGeoJson, warned, bridgeVars>>
    /\ UNCHANGED outerVars

Next ==
    \/ Extract
    \/ \E out \in BackfillOutcomes : BackfillApplied(out)
    \/ BackfillEmpty
    \/ BackfillThrows
    \/ BridgeStart
    \/ SpliceStep
    \/ BridgeReturn

Spec == Init /\ [][Next]_vars

(* ------------------ a second call on the first result ------------------ *)

\* the caller hands what ensureSinglePolygon returned to ensureSinglePolygon
\* again, in the same mode: the first result is the new argument and every
\* local of the two functions starts afresh
Rerun ==
    /\ pc = "done"
    /\ pass = 1
    /\ firstResult' = result
    /\ geojson' = result
    /\ pass' = 2
    /\ pc' = "start"
    /\ polygons' = << >>
    /\ processedGeoJson' = NoGeometry
    /\ sortedPolys' = << >>
    /\ trunk' = << >>
    /\ trunkHoles' = << >>
    /\ i' = 0
    /\ trunkIdx' = 0
    /\ subIdx' = 0
    /\ result' = NoGeometry
    /\ UNCHANGED <<mode, warned, sideVars>>

\* the pipeline in accurate mode (the default of the mode parameter)
AccurateInit == Init /\ mode = "accurate"

AccurateNext ==
    \/ Extract
    \/ BridgeStart
    \/ SpliceStep
    \/ BridgeReturn
    \/ Rerun

AccurateSpec == AccurateInit /\ [][AccurateNext]_vars

(* ------------------- the nearest-pair search alone --------------------- *)

\* a closed ring of len positions that starts at <<ox, 0>> and wanders over
\* a 101 x 97 grid, so that equal distances and several minima occur
SampleRing(len, ox) ==
    [k \in 1..len |->
        IF k = len THEN <<ox, 0>>
        ELSE <<ox + (((k - 1) * 37) % 101), ((k - 1) * 53) % 97>>]

\* the trunk and the incoming ring of the search
ScanTrunk == SampleRing(trunkLen, 0)

ScanSub == SampleRing(subLen, 150)

\* ring lengths: short rings, and rings around the sampling threshold, around
\* a change of stride, and beyond
ShortLens == MinRingLen..MaxShortLen

LongLens ==
    {SampleThreshold - 1, SampleThreshold, SampleThreshold + 1,
     3 * SampleDivisor - 1, 3 * SampleDivisor, MaxScanLen}

\* pairs <<trunk.length, subPolyRing.length>>: one ring short, both just
\* above the sampling threshold, or the two rings of the test
ScanInputs ==
    ((ShortLens \cup LongLens) \X ShortLens)
    \cup (ShortLens \X LongLens)
    \cup {<<SampleThreshold + 1, SampleThreshold + 1>>,
          <<TestRingLen, TestRingLen>>}

\* variant of Improves: a pair at the same distance replaces the best one
ImprovesOrTies(d2, best) == best = -1 \/ d2 <= best

\* if (d2 < minDistSq), minDistSq starting at Infinity
Improves(d2, best) == best = -1 \/ d2 < best

\* everything but the search is at rest
PipelineIdle ==
    /\ geojson = NoGeometry
    /\ mode = "accurate"
    /\ polygons = << >>
    /\ processedGeoJson = NoGeometry
    /\ warned = FALSE
    /\ sortedPolys = << >>
    /\ trunk = << >>
    /\ trunkHoles = << >>
    /\ i = 0
    /\ result = NoGeometry
    /\ pass = 1
    /\ firstResult = NoGeometry

idleVars == <<geojson, mode, polygons, processedGeoJson, warned, sortedPolys,
              trunk, trunkHoles, i, result, rerunVars>>

ScanInit ==
    /\ PipelineIdle
    /\ KmlIdle
    /\ AppIdle
    /\ pc = "search"
    /\ \E lens \in ScanInputs : trunkLen = lens[1] /\ subLen = lens[2]
    /\ stepT = 0
    /\ stepS = 0
    /\ scanT = 0
    /\ scanS = 0
    /\ minDistSq = -1
    /\ trunkIdx = 0
    /\ subIdx = 0
    /\ visitedT = 0
    /\ visitedS = 0

\* minDistSq = Infinity, trunkIdx = 0, subIdx = 0, the two strides, t = 0
ScanBegin ==
    /\ pc = "search"
    /\ minDistSq' = -1
    /\ trunkIdx' = 0
    /\ subIdx' = 0
    /\ stepT' = Stride(trunkLen)
    /\ stepS' = Stride(subLen)
    /\ scanT' = 0
    /\ scanS' = 0
    /\ pc' = "loop"
    /\ UNCHANGED <<trunkLen, subLen, visitedT, visitedS, idleVars, kmlVars, uiVars>>

\* one pass of the inner loop body: the distance of trunk[t] and
\* subPolyRing[s], the update of the best pair, s += stepS
ScanCompare ==
    /\ pc = "loop"
    /\ scanT < trunkLen
    /\ scanS < subLen
    /\ LET d2 == DistSq(ScanTrunk[scanT + 1], ScanSub[scanS + 1])
       IN  IF Improves(d2, minDistSq)
           THEN /\ minDistSq' = d2
                /\ trunkIdx' = scanT
                /\ subIdx' = scanS
           ELSE UNCHANGED <<minDistSq, trunkIdx, subIdx>>
    /\ scanS' = scanS + stepS
    /\ visitedS' = visitedS + 1
    /\ visitedT' = IF scanS = 0 THEN visitedT + 1 ELSE visitedT
    /\ UNCHANGED <<pc, trunkLen, subLen, stepT, stepS, scanT, idleVars, kmlVars, uiVars>>

\* the inner loop is over: t += stepT, and s = 0 for the next pass
ScanNextT ==
    /\ pc = "loop"
    /\ scanT < trunkLen
    /\ scanS >= subLen
    /\ scanT' = scanT + stepT
    /\ scanS' = 0
    /\ visitedS' = 0
    /\ UNCHANGED <<pc, trunkLen, subLen, stepT, stepS, minDistSq, trunkIdx,
                   subIdx, visitedT, idleVars, kmlVars, uiVars>>

\* the outer loop is over: trunkIdx and subIdx are the bridge pair
ScanEnd ==
    /\ pc = "loop"
    /\ scanT >= trunkLen
    /\ pc' = "found"
    /\ UNCHANGED <<scanVars, trunkIdx, subIdx, idleVars, kmlVars, uiVars>>

ScanNext ==
    \/ ScanBegin
    \/ ScanCompare
    \/ ScanNextT
    \/ ScanEnd

ScanSpec == ScanInit /\ [][ScanNext]_vars

(* ------------------------- toKML and parseKML -------------------------- *)

\* A document is modelled by what its text parses to: whether it is
\* well-formed XML, whether its elements are in the KML 2.2 namespace, and
\* its Placemark elements, each with its geometry elements in document
\* order.  The text of a coordinates element is the sequence of its
\* whitespace-separated tokens, a token the sequence of its comma-separated
\* numbers.  Names and properties are left out.

\* an open ring of 4 positions that carry an altitude
RingOpen3D == << <<30, 0, 7>>, <<31, 0, 7>>, <<31, 1, 7>>, <<30, 1, 7>> >>

PolygonElement(outer, inner) ==
    [tag |-> "Polygon", outer |-> outer, inner |-> inner, polygons |-> << >>]

MultiGeometryElement(polys) ==
    [tag |-> "MultiGeometry", outer |-> << >>, inner |-> << >>, polygons |-> polys]

\* coords.map(c => `${c[0]},${c[1]},0`).join(' ')
CoordString(coords) ==
    [k \in 1..Len(coords) |-> <<coords[k][1], coords[k][2], 0>>]

\* polygonToKML: rings[0] in outerBoundaryIs, every other ring in an
\* innerBoundaryIs
PolygonToKML(rings) ==
    PolygonElement(CoordString(rings[1]),
                   [k \in 1..(Len(rings) - 1) |-> CoordString(rings[k + 1])])

\* coordString(rings[0]) with rings = []: rings[0] is undefined and
\* undefined.map raises a TypeError
ToKMLThrows(geom) ==
    \/ geom.type = "Polygon" /\ geom.coordinates = << >>
    \/ /\ geom.type = "MultiPolygon"
       /\ \E k \in 1..Len(geom.coordinates) : geom.coordinates[k] = << >>

\* toKML: one Placemark that holds the Polygon, or a MultiGeometry of the
\* Polygons of the parts
ToKML(geom) ==
    [wellFormed |-> TRUE,
     kmlNamespace |-> TRUE,
     placemarks |-> <<
        [geoms |->
            IF geom.type = "Polygon"
            THEN <<PolygonToKML(geom.coordinates)>>
            ELSE IF geom.type = "MultiPolygon"
            THEN <<MultiGeometryElement(
                     [k \in 1..Len(geom.coordinates) |->
                         PolygonToKML(geom.coordinates[k])])>>
            ELSE << >>] >>]

\* parseFloat(parts[k]) || 0: a missing field gives 0
FieldOrZero(parts, k) == IF k <= Len(parts) THEN parts[k] ELSE 0

\* variant of ParseCoordinates: the ring is not closed
ParseCoordinatesAsIs(text) ==
    [k \in 1..Len(text) |-> <<FieldOrZero(text[k], 1), FieldOrZero(text[k], 2)>>]

\* parseCoordinates: [lon, lat] of every token, and the first position
\* pushed again when the last differs from it
ParseCoordinates(text) ==
    LET points == [k \in 1..Len(text) |->
                      <<FieldOrZero(text[k], 1), FieldOrZero(text[k], 2)>>]
    IN  IF Len(points) > 0 /\ points[1] # points[Len(points)]
        THEN Append(points, points[1])
        ELSE points

\* the inner rings whose coordinates text is not empty
RECURSIVE ParsedHoles(_)
ParsedHoles(inner) ==
    IF inner = << >> THEN << >>
    ELSE (IF Head(inner) # << >> THEN <<ParseCoordinates(Head(inner))>> ELSE << >>)
         \o ParsedHoles(Tail(inner))

\* rings = [parseCoordinates(outerCoords)] and the inner rings pushed
ParsedRings(poly) == <<ParseCoordinates(poly.outer)>> \o ParsedHoles(poly.inner)

\* getElementsByTagNameNS(namespace, 'Polygon') on a Placemark: the Polygon
\* elements below it, in document order, those inside a MultiGeometry too
RECURSIVE PolygonElements(_)
PolygonElements(geoms) ==
    IF geoms = << >> THEN << >>
    ELSE (IF Head(geoms).tag = "Polygon" THEN <<Head(geoms)>>
          ELSE Head(geoms).polygons)
         \o PolygonElements(Tail(geoms))

\* variant of PolygonElements: only the Polygon elements that are children of
\* the Placemark
RECURSIVE PolygonChildren(_)
PolygonChildren(geoms) ==
    IF geoms = << >> THEN << >>
    ELSE (IF Head(geoms).tag = "Polygon" THEN <<Head(geoms)>> ELSE << >>)
         \o PolygonChildren(Tail(geoms))

\* getElementsByTagNameNS(namespace, 'MultiGeometry') on a Placemark
RECURSIVE MultiGeometryElements(_)
MultiGeometryElements(geoms) ==
    IF geoms = << >> THEN << >>
    ELSE (IF Head(geoms).tag = "MultiGeometry" THEN <<Head(geoms)>> ELSE << >>)
         \o MultiGeometryElements(Tail(geoms))

\* multiPolyCoords: the rings of every Polygon that has outer coordinates
RECURSIVE MultiPolyCoords(_)
MultiPolyCoords(polys) ==
    IF polys = << >> THEN << >>
    ELSE (IF Head(polys).outer # << >> THEN <<ParsedRings(Head(polys))>> ELSE << >>)
         \o MultiPolyCoords(Tail(polys))

KmlFeature(geom) == [source |-> "kml", geometry |-> geom]

\* one pass of the loop over the placemarks: the Polygon feature of the
\* first Polygon element, then the MultiPolygon feature of the first
\* MultiGeometry element
PlacemarkFeatures(placemark) ==
    LET polys == PolygonElements(placemark.geoms)
        multis == MultiGeometryElements(placemark.geoms)
        fromPolygon ==
            IF Len(polys) > 0 /\ polys[1].outer # << >>
            THEN <<KmlFeature(Polygon(ParsedRings(polys[1])))>>
            ELSE << >>
        fromMulti ==
            IF Len(multis) > 0 /\ Len(MultiPolyCoords(multis[1].polygons)) > 0
            THEN <<KmlFeature(MultiPolygon(MultiPolyCoords(multis[1].polygons)))>>
            ELSE << >>
    IN  fromPolygon \o fromMulti

RECURSIVE AllFeatures(_)
AllFeatures(placemarks) ==
    IF placemarks = << >> THEN << >>
    ELSE PlacemarkFeatures(Head(placemarks)) \o AllFeatures(Tail(placemarks))

\* variant of ParseKML: the parsererror element is not looked for
ParseKMLUnchecked(doc) ==
    [error |-> FALSE,
     features |-> IF doc.kmlNamespace THEN AllFeatures(doc.placemarks) ELSE << >>]

\* parseKML: 'Invalid KML format' is thrown for a document with a
\* parsererror, before the feature list exists; the placemarks are those in
\* the KML namespace
ParseKML(doc) ==
    IF ~doc.wellFormed THEN [error |-> TRUE, features |-> << >>]
    ELSE [error |-> FALSE,
          features |-> IF doc.kmlNamespace THEN AllFeatures(doc.placemarks)
                       ELSE << >>]

\* geometries of the Features given to toKML
KmlRings == {RingA, RingOpen3D, << >>}

KmlPolygons == SeqsUpTo(KmlRings, MaxKmlRings)

KmlGeometries ==
    {Polygon(q) : q \in KmlPolygons}
    \cup {MultiPolygon(qs) : qs \in SeqsUpTo(KmlPolygons, MaxParts)}

\* Polygon elements of the documents given to parseKML: a square, a
\* triangle with a hole, one without coordinates, and one whose tokens lack
\* a field or have one too many and whose inner ring is empty
ElemSquare == PolygonToKML(<<RingA>>)

ElemHoled == PolygonToKML(<<RingT, HoleH>>)

ElemNoOuter == PolygonElement(<< >>, << >>)

ElemOdd == PolygonElement(<< <<5>>, <<6, 7>>, <<8, 9, 1, 2>> >>, << << >> >>)

UploadPlacemarks ==
    { [geoms |-> << >>],
      [geoms |-> <<ElemSquare>>],
      [geoms |-> <<ElemHoled>>],
      [geoms |-> <<ElemNoOuter>>],
      [geoms |-> <<ElemOdd>>],
      [geoms |-> <<MultiGeometryElement(<<ElemSquare, ElemHoled>>)>>],
      [geoms |-> <<MultiGeometryElement(<< >>)>>],
      [geoms |-> <<MultiGeometryElement(<<ElemNoOuter>>)>>],
      [geoms |-> <<ElemSquare, MultiGeometryElement(<<ElemHoled>>)>>] }

UploadDocuments ==
    [wellFormed : BOOLEAN, kmlNamespace : BOOLEAN,
     placemarks : SeqsUpTo(UploadPlacemarks, MaxPlacemarks)]

KmlInit ==
    /\ PipelineIdle
    /\ ScanIdle
    /\ AppIdle
    /\ trunkIdx = 0
    /\ subIdx = 0
    /\ kmlFeatures = << >>
    /\ \/ /\ pc = "serialize"
          /\ kmlInput \in KmlGeometries
          /\ kmlDoc = NoDocument
       \/ /\ pc = "parse"
          /\ kmlInput = NoGeometry
          /\ kmlDoc \in UploadDocuments

\* toKML(feature): the document, or the TypeError
Serialize ==
    /\ pc = "serialize"
    /\ IF ToKMLThrows(kmlInput)
       THEN /\ pc' = "toKML threw"
            /\ UNCHANGED kmlDoc
       ELSE /\ kmlDoc' = ToKML(kmlInput)
            /\ pc' = "parse"
    /\ UNCHANGED <<kmlInput, kmlFeatures, idleVars, scanVars, uiVars, trunkIdx, subIdx>>

\* parseKML(kmlString): the features, or the format error
Parse ==
    /\ pc = "parse"
    /\ LET parsed == ParseKML(kmlDoc)
       IN  IF parsed.error
           THEN /\ pc' = "format error"
                /\ UNCHANGED kmlFeatures
           ELSE /\ kmlFeatures' = parsed.features
                /\ pc' = "parsed"
    /\ UNCHANGED <<kmlInput, kmlDoc, idleVars, scanVars, uiVars, trunkIdx, subIdx>>

KmlNext ==
    \/ Serialize
    \/ Parse

KmlSpec == KmlInit /\ [][KmlNext]_vars

(* ------------------------- predicates on values ------------------------ *)

\* the set of rings of a geometry
RingsOf(g) ==
    LET polys == FlattenPolygons(g)
    IN  {polys[k][r] : <<k, r>> \in
            {<<k, r>> \in (1..Len(polys)) \X (1..(MaxHoles + 2)) :
                r <= Len(polys[k])}}

\* the set of positions of a ring
PointsOf(ring) == {ring[k] : k \in 1..Len(ring)}

\* a ring is closed: it has a first position and its last position equals it
RingClosed(ring) == Len(ring) > 0 /\ ring[Len(ring)] = ring[1]

\* every ring of the geometry is closed
AllRingsClosed(g) == \A ring \in RingsOf(g) : RingClosed(ring)

\* some ring of the geometry has at least 4 positions
HasValidRing(g) == \E ring \in RingsOf(g) : Len(ring) >= 4

\* bridgeMultiPolygon has been entered with processedGeoJson
BridgeEntered == processedGeoJson # NoGeometry /\ pc \in {"splice", "done", "threw"}

\* a list of one or more polygons, each with an outer ring, whose rings all
\* have at least 4 positions
RingsAtLeast4(g) ==
    LET polys == FlattenPolygons(g)
    IN  /\ Len(polys) >= 1
        /\ \A k \in 1..Len(polys) : Len(polys[k]) >= 1
        /\ \A ring \in RingsOf(g) : Len(ring) >= 4

\* the outer ring of every polygon of the geometry is closed
OuterRingsClosed(g) ==
    LET polys == FlattenPolygons(g)
    IN  \A k \in 1..Len(polys) : Len(polys[k]) >= 1 => RingClosed(polys[k][1])

\* the returned geometry is a Polygon with exactly one outer ring that holds
\* every position of every outer ring handed to bridgeMultiPolygon
OneOuterRing(res, g) ==
    LET polys == FlattenPolygons(g)
    IN  /\ res.type = "Polygon"
        /\ Len(res.coordinates) >= 1
        /\ Len(res.coordinates[1]) >= 4
        /\ \A k \in 1..Len(polys) :
               PointsOf(polys[k][1]) \subseteq PointsOf(res.coordinates[1])

(* ------------------------------- claims -------------------------------- *)

\* C1: for every input whose rings are all closed, in both modes, the
\* pipeline does not throw and what it returns has type 'Polygon'; when the
\* input has a ring of at least 4 positions, the returned outer ring
\* (coordinates[0]) exists and is not empty.
C1_PolygonOut ==
    AllRingsClosed(geojson) =>
        /\ pc # "threw"
        /\ pc = "done" =>
              /\ result.type = "Polygon"
              /\ HasValidRing(geojson) =>
                    /\ Len(result.coordinates) >= 1
                    /\ Len(result.coordinates[1]) > 0

\* C1 witness: a MultiPolygon with a degenerate ring and valid rings has
\* been bridged with two splices and returned
C1_Witness ==
    /\ pc = "done"
    /\ geojson.type = "MultiPolygon"
    /\ AllRingsClosed(geojson)
    /\ HasValidRing(geojson)
    /\ \E ring \in RingsOf(geojson) : Len(ring) < 4
    /\ i = 3

\* C2 as claimed: whenever bridgeMultiPolygon is entered with one or more
\* polygons whose rings all have at least 4 positions, whatever their
\* closure state, it raises no error.
C2_Original ==
    (BridgeEntered /\ RingsAtLeast4(processedGeoJson)) => pc # "threw"

\* the measure of the splice loop: the polygons still to be spliced
Remaining == Len(sortedPolys) - i

\* C2 amended: when bridgeMultiPolygon is entered with one or more polygons
\* whose rings all have at least 4 positions and whose outer rings are
\* closed, it raises no error; each pass of its loop decreases the number of
\* polygons still to be spliced, which is never negative, so the loop
\* terminates; and what it returns is a
\* Polygon with one outer ring that holds the positions of every input
\* outer ring.
C2_BridgingTotal ==
    /\ [](((pc = "bridge" \/ BridgeEntered)
            /\ RingsAtLeast4(processedGeoJson)
            /\ OuterRingsClosed(processedGeoJson)) =>
              /\ pc # "threw"
              /\ Remaining >= 0
              /\ pc = "done" => OneOuterRing(result, processedGeoJson))
    /\ [][(pc = "splice" /\ pc' = "splice") => Remaining' < Remaining]_vars

\* C2 witness: three polygons with closed outer rings and an open hole have
\* been bridged and returned
C2_Witness ==
    /\ pc = "done"
    /\ BridgeEntered
    /\ RingsAtLeast4(processedGeoJson)
    /\ OuterRingsClosed(processedGeoJson)
    /\ ~AllRingsClosed(processedGeoJson)
    /\ i = 3


\* C3: for every input whose rings are all closed, the trunk is closed after
\* every splice step and the outer ring of the returned Polygon, when it has
\* a position, has its first position equal to its last.
C3_OutputClosed ==
    AllRingsClosed(geojson) =>
        /\ pc = "splice" => RingClosed(trunk)
        /\ (pc = "done" /\ Len(result.coordinates) >= 1
                        /\ Len(result.coordinates[1]) > 0) =>
              RingClosed(result.coordinates[1])

\* C3 witness: an input of closed rings has gone through two splice steps
\* in accurate mode and the bridged ring has been returned
C3_Witness ==
    /\ pc = "done"
    /\ mode = "accurate"
    /\ AllRingsClosed(geojson)
    /\ i = 3
    /\ result.coordinates[1] = trunk
    /\ Len(trunk) > Len(sortedPolys[1].coordinates[1])

\* the ring T[0..t] ++ S[s..end] ++ S[0..s] ++ T[t..end] (0-based indices,
\* bounds inclusive), position by position
SplicedAt(T, S, t, s, k) ==
    IF k <= t + 1 THEN T[k]
    ELSE IF k <= t + 1 + (Len(S) - s) THEN S[s + (k - (t + 1))]
    ELSE IF k <= t + 2 + Len(S) THEN S[k - (t + 1 + Len(S) - s)]
    ELSE T[k - (Len(S) + 2)]

\* C4: each splice step of trunk T with incoming ring S at the chosen
\* indices (t, s) replaces the trunk by T[0..t] ++ S[s..end] ++ S[0..s] ++
\* T[t..end]: the new trunk has |T| + |S| + 2 positions, and t and s are
\* indices of T and of S.
C4_SpliceShape ==
    [][(pc = "splice" /\ i' = i + 1) =>
          LET S == sortedPolys[i + 1].coordinates[1]
          IN  /\ trunkIdx' \in 0..(Len(trunk) - 1)
              /\ subIdx' \in 0..(Len(S) - 1)
              /\ Len(trunk') = Len(trunk) + Len(S) + 2
              /\ \A k \in 1..Len(trunk') :
                     trunk'[k] = SplicedAt(trunk, S, trunkIdx', subIdx', k)]_vars

\* C4 witness: a second splice step has acted, at a bridge position inside
\* the trunk and inside the incoming ring
C4_Witness ==
    /\ pc = "splice"
    /\ i = 3
    /\ trunkIdx > 0
    /\ subIdx > 0

\* the two-squares scenario
TwoSquares == MultiPolygon(<< <<RingA>>, <<RingB>> >>)

\* C5 as claimed: bridging the two unit squares A and B in accurate mode
\* yields a single ring of length 10 that holds the 8 positions of A and B.
C5_Original ==
    (pc = "done" /\ mode = "accurate" /\ geojson = TwoSquares) =>
        /\ Len(result.coordinates) = 1
        /\ Len(result.coordinates[1]) = 10
        /\ PointsOf(RingA) \cup PointsOf(RingB) \subseteq PointsOf(result.coordinates[1])

\* C5 amended: bridging the two unit squares A and B in accurate mode yields
\* a single ring of length 12 (5 + 5 positions of the closed rings plus the
\* 2 duplicated bridge positions) that holds the 8 positions of A and B.
C5_TwoSquares ==
    (pc = "done" /\ mode = "accurate" /\ geojson = TwoSquares) =>
        /\ result.type = "Polygon"
        /\ Len(result.coordinates) = 1
        /\ Len(result.coordinates[1]) = 12
        /\ PointsOf(RingA) \cup PointsOf(RingB) \subseteq PointsOf(result.coordinates[1])

\* C5 witness: the two squares have been bridged in accurate mode
C5_Witness ==
    /\ pc = "done"
    /\ mode = "accurate"
    /\ geojson = TwoSquares
    /\ i = 2


\* the holes of a polygon: its rings after the outer ring
HolesOf(poly) == SubSeq(poly, 2, Len(poly))

\* the index of the polygon with the largest outer-ring area, the earliest
\* one among polygons of equal area
LargestIndex(polys) ==
    CHOOSE k \in 1..Len(polys) :
        \A j \in 1..Len(polys) :
            /\ OuterArea(polys[j][1]) <= OuterArea(polys[k][1])
            /\ OuterArea(polys[j][1]) = OuterArea(polys[k][1]) => k <= j

\* the holes of the largest-area polygon of a geometry
HolesOfLargest(g) ==
    LET polys == FlattenPolygons(g)
    IN  HolesOf(polys[LargestIndex(polys)])

\* the backfill stage did not run or left the working geometry as extracted
BackfillSkipped ==
    mode = "accurate" \/ processedGeoJson = MultiPolygon(FlattenPolygons(geojson))

\* C6 as claimed: in both modes, for an input of polygons whose rings all
\* have at least 4 positions, the holes of the returned Polygon are exactly
\* the holes of the largest-area input polygon.
C6_Original ==
    (pc = "done" /\ RingsAtLeast4(geojson)) =>
        HolesOf(result.coordinates) = HolesOfLargest(geojson)

\* C6 amended: in accurate mode, and in approximate mode when the backfill
\* stage leaves the working geometry unchanged, for an input of polygons
\* whose rings all have at least 4 positions, the holes of the returned
\* Polygon are exactly the holes of the largest-area input polygon (the
\* earliest among equals): same count, coordinates and order.
C6_HolesOfLargest ==
    (pc = "done" /\ RingsAtLeast4(geojson) /\ BackfillSkipped) =>
        /\ Len(result.coordinates) >= 1
        /\ HolesOf(result.coordinates) = HolesOfLargest(geojson)

\* C6 witness: three polygons, two of them with different holes, have been
\* bridged in accurate mode, the smallest one first in the input
C6_Witness ==
    /\ pc = "done"
    /\ mode = "accurate"
    /\ geojson = MultiPolygon(<< <<RingB>>, <<RingT, HoleH>>, <<RingT, HoleU>> >>)
    /\ HolesOf(result.coordinates) = <<HoleH>>

\* a MultiPolygon of one polygon with exactly one hole (index a) and a
\* second polygon with another outer ring and no hole, all rings having at
\* least 4 positions
HoledPair(g, a) ==
    /\ g.type = "MultiPolygon"
    /\ Len(g.coordinates) = 2
    /\ a \in 1..2
    /\ Len(g.coordinates[a]) = 2
    /\ Len(g.coordinates[3 - a]) = 1
    /\ g.coordinates[a][1] # g.coordinates[3 - a][1]
    /\ RingsAtLeast4(g)

\* C7 as claimed (read in accurate mode): for one polygon with one hole and
\* a second disjoint polygon without holes, the returned Polygon has exactly
\* one hole, whichever comes first and whichever is spliced into the other.
C7_Original ==
    \A a \in 1..2 :
        (pc = "done" /\ mode = "accurate" /\ HoledPair(geojson, a)) =>
            Len(HolesOf(result.coordinates)) = 1

\* C7 amended: in accurate mode, for one polygon with one hole of at least
\* 4 positions and a second disjoint polygon without holes, whichever comes
\* first in the input, the returned Polygon has exactly one hole (that
\* hole) when the outer ring of the holed polygon has the larger area, and
\* no hole when it has the smaller area.
C7_OneHoleIfLarger ==
    \A a \in 1..2 :
        (pc = "done" /\ mode = "accurate" /\ HoledPair(geojson, a)) =>
            LET holed == geojson.coordinates[a]
                other == geojson.coordinates[3 - a]
            IN  /\ OuterArea(holed[1]) > OuterArea(other[1]) =>
                       HolesOf(result.coordinates) = <<holed[2]>>
                /\ OuterArea(holed[1]) < OuterArea(other[1]) =>
                       HolesOf(result.coordinates) = << >>

\* C7 witness: the holed polygon is the larger one, comes second in the
\* input, and the bridged Polygon has been returned with its hole
C7_Witness ==
    /\ pc = "done"
    /\ mode = "accurate"
    /\ HoledPair(geojson, 2)
    /\ i = 2
    /\ Len(HolesOf(result.coordinates)) = 1

\* C8: for the empty MultiPolygon, in either mode, the pipeline returns at
\* once the Polygon with coordinates [] and never throws.
C8_EmptyMultiPolygon ==
    geojson = MultiPolygon(<< >>) =>
        /\ pc \in {"start", "done"}
        /\ pc = "done" => result = [type |-> "Polygon", coordinates |-> << >>]

\* C8 witness: the empty MultiPolygon has been processed in approximate mode
C8_Witness ==
    /\ geojson = MultiPolygon(<< >>)
    /\ mode = "approximate"
    /\ pc = "done"

\* C9 as claimed: when the input has polygons but every ring has fewer than
\* 4 positions, the pipeline returns the Polygon with coordinates [].
C9_EmptyWhenNoValidRing ==
    (pc = "done" /\ Len(FlattenPolygons(geojson)) >= 1
                 /\ ~HasValidRing(geojson)) =>
        result = [type |-> "Polygon", coordinates |-> << >>]

\* C10 as claimed: no ring of the returned Polygon has between 1 and 3
\* positions.
C10_NoShortRing ==
    pc = "done" =>
        \A k \in 1..Len(result.coordinates) :
            Len(result.coordinates[k]) \notin 1..3

\* C11: in accurate mode a Polygon input is returned with the coordinates it
\* came with, and calling ensureSinglePolygon in accurate mode on what an
\* accurate-mode call returned gives that same result again, the empty
\* results [] and [[]] included.
C11_AccurateIdempotent ==
    (mode = "accurate" /\ pc = "done") =>
        /\ geojson.type = "Polygon" => result = Polygon(geojson.coordinates)
        /\ pass = 2 => result = firstResult

\* C11 witness: the first call bridged a MultiPolygon without a valid ring to
\* [[]], and the second call on that result has returned
C11_Witness ==
    /\ mode = "accurate"
    /\ pass = 2
    /\ pc = "done"
    /\ firstResult = BridgeEmptyResult
    /\ result = BridgeEmptyResult

\* C12 as claimed: the backfill stage is entered only in approximate mode
\* with at least 2 extracted polygons; with exactly one extracted polygon it
\* is not entered, in either mode.
C12_BackfillNeedsTwoPolygons ==
    pc = "backfill" => (mode = "approximate" /\ Len(polygons) >= 2)

\* C13 as claimed: whenever a backfill step fails, by throwing or by
\* returning nothing, the stage is skipped without an error, the diagnostic
\* is emitted, and bridging is handed exactly the extracted polygons.
C13_FailureSkipsWithDiagnostic ==
    [][(BackfillEmpty \/ BackfillThrows) =>
          /\ pc' = "bridge"
          /\ warned'
          /\ processedGeoJson' = MultiPolygon(polygons)]_vars

\* the sample budget of the claim: 1000 indices per ring
Budget == SampleThreshold

\* the search has computed its strides
Scanning == pc \in {"loop", "found"} /\ trunkLen > 0

Max(a, b) == IF a >= b THEN a ELSE b

VisitedIndices(len, step) == {k \in 0..(len - 1) : k % step = 0}

\* the squared distance of trunk[a] and subPolyRing[b]
PairDist(a, b) == DistSq(ScanTrunk[a + 1], ScanSub[b + 1])

\* C15: the pair (trunkIdx, subIdx) a search ends with is a visited pair of
\* least squared distance among all visited pairs, and the first such pair
\* in scan order (smallest t, then smallest s); when both rings are scanned
\* with stride 1 it is a least-distance pair among all pairs of positions.
\* On short rings it is the pair the splice step of the pipeline uses.
C15_NearestVisitedPair ==
    pc = "found" =>
        LET VT == VisitedIndices(trunkLen, stepT)
            VS == VisitedIndices(subLen, stepS)
        IN  /\ trunkIdx \in VT
            /\ subIdx \in VS
            /\ minDistSq = PairDist(trunkIdx, subIdx)
            /\ \A a \in VT, b \in VS :
                   /\ minDistSq <= PairDist(a, b)
                   /\ PairDist(a, b) = minDistSq =>
                          (trunkIdx < a \/ (trunkIdx = a /\ subIdx <= b))
            /\ (stepT = 1 /\ stepS = 1) =>
                   \A a \in 0..(trunkLen - 1), b \in 0..(subLen - 1) :
                       minDistSq <= PairDist(a, b)
            /\ (trunkLen <= MaxShortLen /\ subLen <= MaxShortLen) =>
                   NearestPair(ScanTrunk, ScanSub) =
                       [minDistSq |-> minDistSq, trunkIdx |-> trunkIdx,
                        subIdx |-> subIdx]

\* C15 witness: a search over a sampled trunk has ended on a pair inside
\* the trunk, a pair visited later lies at the same distance, and a pair
\* that was not visited is nearer
C15_Witness ==
    /\ pc = "found"
    /\ stepT > 1
    /\ trunkIdx > 0
    /\ \E a \in VisitedIndices(trunkLen, stepT), b \in VisitedIndices(subLen, stepS) :
           /\ a > trunkIdx \/ (a = trunkIdx /\ b > subIdx)
           /\ PairDist(a, b) = minDistSq
    /\ \E a \in 0..(trunkLen - 1), b \in 0..(subLen - 1) :
           PairDist(a, b) < minDistSq

\* the polygons bridgeMultiPolygon ranks: those left by its ring filter
ValidPolygons == FilterPolygons(FlattenPolygons(processedGeoJson))

\* sorted lists the polygons of input by descending outer-ring area, those
\* of equal area in their input order
StableDescending(sorted, input) ==
    /\ Len(sorted) = Len(input)
    /\ \E p \in Permutations(1..Len(input)) :
          /\ \A k \in 1..Len(input) :
                 /\ sorted[k].coordinates = input[p[k]]
                 /\ sorted[k].area = OuterArea(input[p[k]][1])
          /\ \A k, l \in 1..Len(input) :
                 k < l =>
                    LET ak == OuterArea(input[p[k]][1])
                        al == OuterArea(input[p[l]][1])
                    IN  ak > al \/ (ak = al /\ p[k] < p[l])

\* the trunk after the outer rings of sorted[2..n] have been spliced into
\* the outer ring of sorted[1], one after the other in that order
RECURSIVE TrunkAfter(_, _)
TrunkAfter(sorted, n) ==
    IF n <= 1 THEN sorted[1].coordinates[1]
    ELSE LET T == TrunkAfter(sorted, n - 1)
             S == sorted[n].coordinates[1]
             best == NearestPair(T, S)
         IN  Splice(T, S, best.trunkIdx, best.subIdx)

\* C16: when 2 or more valid polygons are bridged, the polygons are ranked
\* by descending outer-ring area with polygons of equal area in input order,
\* the trunk starts as the outer ring of the first of them (a polygon of
\* largest area, the earliest of several), and the outer rings of the others
\* are spliced into it one by one in that order.
C16_TrunkAndSpliceOrder ==
    (pc \in {"splice", "done"} /\ Len(sortedPolys) >= 2) =>
        /\ StableDescending(sortedPolys, ValidPolygons)
        /\ \A k \in 1..Len(ValidPolygons) :
               OuterArea(ValidPolygons[k][1]) <= sortedPolys[1].area
        /\ pc = "splice" => trunk = TrunkAfter(sortedPolys, i)
        /\ pc = "done" =>
               result.coordinates[1] = TrunkAfter(sortedPolys, Len(sortedPolys))

\* C16 witness: the largest polygon comes second in the input, between two
\* polygons of equal area; it is the trunk and the two others have been
\* spliced into it in their input order
C16_Witness ==
    /\ pc = "done"
    /\ geojson = MultiPolygon(<< <<RingB>>, <<RingT>>, <<RingA>> >>)
    /\ sortedPolys[1].coordinates = <<RingT>>
    /\ sortedPolys[2].coordinates = <<RingB>>
    /\ sortedPolys[3].coordinates = <<RingA>>
    /\ i = 3

\* a ring without its altitudes
Flat2D(ring) == [k \in 1..Len(ring) |-> <<ring[k][1], ring[k][2]>>]

\* a ring with its first position added at the end unless it ends there
ClosedRing(ring) ==
    IF Len(ring) > 0 /\ ring[1] # ring[Len(ring)] THEN Append(ring, ring[1])
    ELSE ring

\* the rings of a polygon, altitudes removed and rings closed
NormalRings(poly) == [k \in 1..Len(poly) |-> ClosedRing(Flat2D(poly[k]))]

\* a geometry up to altitude removal and ring-closure normalization
NormalGeometry(g) ==
    IF g.type = "Polygon" THEN Polygon(NormalRings(g.coordinates))
    ELSE MultiPolygon([k \in 1..Len(g.coordinates) |-> NormalRings(g.coordinates[k])])

\* the geometry has a polygon, every polygon a ring and every ring a position
NoEmptyRing(g) ==
    LET polys == FlattenPolygons(g)
    IN  /\ Len(polys) >= 1
        /\ \A k \in 1..Len(polys) :
               /\ Len(polys[k]) >= 1
               /\ \A r \in 1..Len(polys[k]) : Len(polys[k][r]) >= 1

\* C17 as claimed (and only for geometries with a polygon and without an
\* empty polygon or ring): parseKML(toKML(f)) is exactly one Feature, whose geometry has the
\* type of f and the rings of f, altitudes removed and rings closed.
C17_RoundTrip ==
    (pc = "parsed" /\ kmlInput # NoGeometry /\ NoEmptyRing(kmlInput)) =>
        /\ Len(kmlFeatures) = 1
        /\ kmlFeatures[1].geometry = NormalGeometry(kmlInput)

\* C17, the part that holds: for a Polygon without an empty ring the round
\* trip returns exactly one Feature with the rings of f, altitudes removed
\* and rings closed.
RoundTripOfPolygon ==
    (pc = "parsed" /\ kmlInput.type = "Polygon" /\ NoEmptyRing(kmlInput)) =>
        /\ Len(kmlFeatures) = 1
        /\ kmlFeatures[1].geometry = NormalGeometry(kmlInput)

\* the placemark has geometry elements, and each of its Polygon elements has
\* outer coordinates
RegularPlacemark(placemark) ==
    /\ Len(PolygonElements(placemark.geoms)) >= 1
    /\ \A k \in 1..Len(PolygonElements(placemark.geoms)) :
           PolygonElements(placemark.geoms)[k].outer # << >>

\* C18 as claimed (and only for documents of one placemark whose Polygon
\* elements all have coordinates): a placemark with a single Polygon yields
\* one Polygon feature, and a placemark with a MultiGeometry of n Polygons
\* yields one MultiPolygon feature of n parts and no other feature.
C18_OneFeaturePerPlacemark ==
    (/\ pc = "parsed"
     /\ kmlDoc.kmlNamespace
     /\ Len(kmlDoc.placemarks) = 1
     /\ Len(kmlDoc.placemarks[1].geoms) = 1
     /\ RegularPlacemark(kmlDoc.placemarks[1])) =>
        LET element == kmlDoc.placemarks[1].geoms[1]
        IN  /\ Len(kmlFeatures) = 1
            /\ element.tag = "Polygon" =>
                   kmlFeatures[1].geometry.type = "Polygon"
            /\ element.tag = "MultiGeometry" =>
                   /\ kmlFeatures[1].geometry.type = "MultiPolygon"
                   /\ Len(kmlFeatures[1].geometry.coordinates) = Len(element.polygons)

(* ------------------------------- App.tsx ------------------------------- *)

\* The App component: layers, selectedLayerId and editMode, the file reads
\* started by handleKMLUpload whose onload has yet to run, and the effect
\* that re-processes the layers after editMode has changed.  Names, colors
\* and the visible and editable flags of a layer are left out.  The turf
\* calls of the backfill are a function of their input; in one run they
\* give the simplified outline turfBackfill, or they fail (NoGeometry).

\* turf.truncate(geojson, {precision: 10, coordinates: 2}) on a position
Truncate2D(position) ==
    IF Len(position) > 2 THEN SubSeq(position, 1, 2) ELSE position

TruncateRings(rings) ==
    [k \in 1..Len(rings) |->
        [n \in 1..Len(rings[k]) |-> Truncate2D(rings[k][n])]]

\* convertTo2D
ConvertTo2D(g) ==
    IF g.type = "Polygon" THEN Polygon(TruncateRings(g.coordinates))
    ELSE IF g.type = "MultiPolygon"
    THEN MultiPolygon([k \in 1..Len(g.coordinates) |->
                          TruncateRings(g.coordinates[k])])
    ELSE g

\* bridgeMultiPolygon as one call: its value, or threw when turf.polygon
\* raises
BridgeMultiPolygon(g) ==
    LET valid == FilterPolygons(FlattenPolygons(g))
    IN  IF Len(valid) = 0
        THEN [threw |-> FALSE, geometry |-> BridgeEmptyResult]
        ELSE IF Len(valid) = 1
        THEN [threw |-> FALSE, geometry |-> Polygon(valid[1])]
        ELSE IF RankThrows(valid)
        THEN [threw |-> TRUE, geometry |-> NoGeometry]
        ELSE LET sorted == SortByArea(RankPolygons(valid))
             IN  [threw |-> FALSE,
                  geometry |-> Polygon(<<TrunkAfter(sorted, Len(sorted))>>
                                       \o SliceFrom(sorted[1].coordinates, 1))]

\* ensureSinglePolygon as one call; backfill is what the turf calls of step
\* 2 give for this input, NoGeometry when they fail
EnsureSinglePolygon(g, m, backfill) ==
    LET extracted == FlattenPolygons(g)
    IN  IF Len(extracted) = 0
        THEN [threw |-> FALSE, geometry |-> EmptyResult]
        ELSE IF Len(extracted) = 1 /\ m = "accurate"
        THEN [threw |-> FALSE, geometry |-> Polygon(extracted[1])]
        ELSE IF m = "approximate" /\ backfill # NoGeometry
        THEN BridgeMultiPolygon(backfill)
        ELSE BridgeMultiPolygon(MultiPolygon(extracted))

\* the call as one step and the call step by step agree: when the pipeline
\* has returned, its result is the value of EnsureSinglePolygon for the
\* backfill that was applied, and it has thrown when EnsureSinglePolygon has
OneCallAgrees ==
    LET applied == IF processedGeoJson \in BackfillOutcomes
                   THEN processedGeoJson ELSE NoGeometry
        call == EnsureSinglePolygon(geojson, mode, applied)
    IN  /\ (pc = "done" /\ pass = 1) => (~call.threw /\ result = call.geometry)
        /\ pc = "threw" => call.threw

\* variant of Process: convertTo2D alone
ProcessConverted(g, m) == [threw |-> FALSE, geometry |-> ConvertTo2D(g)]

\* convertTo2D, then ensureSinglePolygon under mode m
Process(g, m) == EnsureSinglePolygon(ConvertTo2D(g), m, turfBackfill)

NoFeaturesAlert == "No valid features found in KML file"

ParseFailedAlert == "Failed to parse KML file. Please ensure it is valid."

\* the files a user uploads: a malformed one in which a Placemark can still
\* be found, an empty one, one whose elements are not in the KML namespace,
\* one Placemark with a Polygon, one Placemark with a MultiGeometry
AppDocuments ==
    { [wellFormed |-> FALSE, kmlNamespace |-> TRUE,
       placemarks |-> << [geoms |-> <<ElemSquare>>] >>],
      [wellFormed |-> TRUE, kmlNamespace |-> TRUE, placemarks |-> << >>],
      [wellFormed |-> TRUE, kmlNamespace |-> FALSE,
       placemarks |-> << [geoms |-> <<ElemSquare>>] >>],
      [wellFormed |-> TRUE, kmlNamespace |-> TRUE,
       placemarks |-> << [geoms |-> <<ElemHoled>>] >>],
      [wellFormed |-> TRUE, kmlNamespace |-> TRUE,
       placemarks |-> << [geoms |-> <<MultiGeometryElement(
                                        <<ElemSquare, ElemHoled>>)>>] >>] }

\* the first render: no layer, nothing selected, 'accurate', and the effect
\* scheduled as after every first render
AppInit ==
    /\ PipelineIdle
    /\ ScanIdle
    /\ KmlIdle
    /\ pc = "mounted"
    /\ trunkIdx = 0
    /\ subIdx = 0
    /\ layers = << >>
    /\ selectedLayerId = NoSelection
    /\ editMode = "accurate"
    /\ effectPending = TRUE
    /\ reads = {}
    /\ uploads = 0
    /\ toggles = 0
    /\ alerted = ""
    /\ turfBackfill \in BackfillOutcomes \cup {NoGeometry}
    /\ featurePending = TRUE
    /\ UiIdle

notAppVars == <<idleVars, pc, trunkIdx, subIdx, scanVars, kmlVars>>

\* generateColor(index): the index of the color in the palette
GenerateColor(index) == index % PaletteSize

\* the layer that selectedLayerId names is in layers
HasSelectedLayer == \E k \in 1..Len(layers) : layers[k].id = selectedLayerId

\* handleKMLUpload(file): reader.onload is a closure over the editMode and
\* the layers of the render the handler belongs to, and the read is started
HandleKMLUpload(doc) ==
    /\ uploads < MaxUploads
    /\ uploads' = uploads + 1
    /\ reads' = reads \cup {[file |-> uploads + 1, doc |-> doc,
                             editMode |-> editMode, layersLen |-> Len(layers)]}
    /\ UNCHANGED <<layers, selectedLayerId, editMode, effectPending, toggles,
                   alerted, turfBackfill, featurePending, notAppVars, restVars>>

\* the layers of the features of the file of read r, processed under the
\* mode of the closure and colored from the layers.length of the closure
NewLayers(r, features) ==
    [k \in 1..Len(features) |->
        [id |-> <<r.file, k>>,
         originalGeoJson |-> features[k].geometry,
         geometry |-> Process(features[k].geometry, r.editMode).geometry,
         color |-> GenerateColor(r.layersLen + (k - 1)),
         source |-> "upload"]]

\* reader.onload of one read: parseKML, the alert and return for no
\* feature, the layers appended and the first of them selected, and the
\* catch block for an exception of parseKML or of the pipeline
ReaderOnload ==
    \E r \in reads :
       /\ reads' = reads \ {r}
       /\ LET parsed == ParseKML(r.doc)
              features == parsed.features
          IN  IF parsed.error
                 \/ \E k \in 1..Len(features) :
                        Process(features[k].geometry, r.editMode).threw
              THEN /\ alerted' = ParseFailedAlert
                   /\ UNCHANGED <<layers, selectedLayerId, featurePending>>
              ELSE IF Len(features) = 0
              THEN /\ alerted' = NoFeaturesAlert
                   /\ UNCHANGED <<layers, selectedLayerId, featurePending>>
              ELSE /\ layers' = layers \o NewLayers(r, features)
                   /\ selectedLayerId' = <<r.file, 1>>
                   /\ featurePending' = TRUE
                   /\ UNCHANGED alerted
       /\ UNCHANGED <<editMode, effectPending, uploads, toggles, turfBackfill,
                      notAppVars, restVars>>

\* setEditMode with the other mode: the component renders with it and the
\* effect of [editMode] is scheduled
ToggleMode ==
    /\ toggles < MaxToggles
    /\ toggles' = toggles + 1
    /\ editMode' = IF editMode = "accurate" THEN "approximate" ELSE "accurate"
    /\ effectPending' = TRUE
    /\ UNCHANGED <<layers, selectedLayerId, reads, uploads, alerted,
                   turfBackfill, featurePending, notAppVars, restVars>>

\* variant of Reprocessed: the pipeline is run on the layer's geometry
ReprocessedGeometry(layer, m) == Process(layer.geometry, m).geometry

\* the effect's geometry of one layer: the pipeline run on its
\* originalGeoJson under mode m
Reprocessed(layer, m) == Process(layer.originalGeoJson, m).geometry

\* the effect: every layer that has an originalGeoJson gets the geometry of
\* the pipeline run on it under the rendered editMode; the feature of every
\* layer is a new object, the selected one too
ModeEffect ==
    /\ effectPending
    /\ effectPending' = FALSE
    /\ layers' = [k \in 1..Len(layers) |->
                     [layers[k] EXCEPT !.geometry = Reprocessed(layers[k], editMode)]]
    /\ featurePending' = (featurePending \/ HasSelectedLayer)
    /\ UNCHANGED <<selectedLayerId, editMode, reads, uploads, toggles, alerted,
                   turfBackfill, notAppVars, restVars>>

AppNext ==
    \/ \E doc \in AppDocuments : HandleKMLUpload(doc)
    \/ ReaderOnload
    \/ ToggleMode
    \/ ModeEffect

AppSpec == AppInit /\ [][AppNext]_vars

\* the onload of read r runs in this step
OnloadOf(r) == r \in reads /\ reads' = reads \ {r}

\* the document has no Placemark that parseKML turns into a feature
NoRecognizablePlacemark(doc) ==
    ~doc.kmlNamespace \/ AllFeatures(doc.placemarks) = << >>

\* C19: parseKML fails with the format error for a malformed document
\* whatever Placemarks can be found in it, and returns a feature list for a
\* well-formed one, empty when it has no recognizable placemark; when the
\* onload of an upload meets the error (it alerts the parse failure) or the
\* empty list (it alerts that no feature was found), layers and
\* selectedLayerId are left as they were.
C19_NoLayerOnErrorOrEmpty ==
    [][\A r \in reads :
          OnloadOf(r) =>
             /\ ~r.doc.wellFormed =>
                   /\ ParseKML(r.doc) = [error |-> TRUE, features |-> << >>]
                   /\ alerted' = ParseFailedAlert
                   /\ layers' = layers
                   /\ selectedLayerId' = selectedLayerId
             /\ (r.doc.wellFormed /\ NoRecognizablePlacemark(r.doc)) =>
                   /\ ParseKML(r.doc) = [error |-> FALSE, features |-> << >>]
                   /\ alerted' = NoFeaturesAlert
                   /\ layers' = layers
                   /\ selectedLayerId' = selectedLayerId]_vars

\* C19 witness: two uploads are over; the first file gave the layers and
\* the selection, the second was malformed and its onload alerted the parse
\* failure
C19_Witness ==
    /\ uploads = 2
    /\ reads = {}
    /\ Len(layers) > 0
    /\ \A k \in 1..Len(layers) : layers[k].id[1] = 1
    /\ selectedLayerId = <<1, 1>>
    /\ alerted = ParseFailedAlert

\* no callback is left to run
Quiescent == reads = {} /\ ~effectPending

\* C20: once every onload and the effect have run, the geometry of every
\* layer is the one the pipeline gives for its originalGeoJson under the
\* current editMode.
C20_NewestResultStands ==
    Quiescent =>
        \A k \in 1..Len(layers) :
            layers[k].geometry = Process(layers[k].originalGeoJson, editMode).geometry

\* C21: the test's copy of bridgeMultiPolygon chooses the strides of the
\* production search, for the rings of every search, those of the test's
\* two rings of 5001 positions among them.
C21_MockSameStride ==
    Scanning => (stepT = MockStride(trunkLen) /\ stepS = MockStride(subLen))

(* ----------------------- App.tsx: the layer list ----------------------- *)

\* what the name search hands to handleSearchResult as result.geojson: no
\* geojson at all, a point, a square, a ring of 3 positions, and two parts,
\* one of them with a hole
SearchResults ==
    { NoGeometry,
      [type |-> "Point", coordinates |-> <<5, 5>>],
      Polygon(<<RingA>>),
      Polygon(<<RingS3>>),
      MultiPolygon(<< <<RingA>>, <<RingT, HoleH>> >>) }

\* handleSearchResult(result): the return for a result without geojson,
\* the pipeline under the rendered editMode, the layer appended and
\* selected; an exception of the pipeline leaves the handler
HandleSearchResult(g) ==
    /\ searches < MaxSearches
    /\ searches' = searches + 1
    /\ IF g = NoGeometry \/ Process(g, editMode).threw
       THEN UNCHANGED <<layers, selectedLayerId, featurePending>>
       ELSE /\ layers' = Append(layers,
                            [id |-> <<0, searches + 1>>,
                             originalGeoJson |-> g,
                             geometry |-> Process(g, editMode).geometry,
                             color |-> GenerateColor(Len(layers)),
                             source |-> "search"])
            /\ selectedLayerId' = <<0, searches + 1>>
            /\ featurePending' = TRUE
    /\ UNCHANGED <<editMode, effectPending, reads, uploads, toggles, alerted,
                   turfBackfill, downloaded, editVars, sidebarVars, notAppVars>>

\* onSelectLayer(layer.id): a click on another layer of the list
SelectLayer ==
    \E k \in 1..Len(layers) :
       /\ layers[k].id # selectedLayerId
       /\ selectedLayerId' = layers[k].id
       /\ featurePending' = TRUE
       /\ UNCHANGED <<layers, editMode, effectPending, reads, uploads, toggles,
                      alerted, turfBackfill, restVars, notAppVars>>

\* layers.filter(l => l.id !== layerId)
RECURSIVE WithoutLayer(_, _)
WithoutLayer(list, id) ==
    IF list = << >> THEN << >>
    ELSE (IF Head(list).id # id THEN <<Head(list)>> ELSE << >>)
         \o WithoutLayer(Tail(list), id)

\* variant of NextSelection: the selection is cleared
NextSelectionNone(remaining) == NoSelection

\* remaining.length > 0 ? remaining[0].id : null
NextSelection(remaining) ==
    IF Len(remaining) > 0 THEN remaining[1].id ELSE NoSelection

\* handleLayerDelete(layerId): the layer filtered out, and the selection
\* moved when it was the selected one
HandleLayerDelete ==
    \E k \in 1..Len(layers) :
       LET layerId == layers[k].id
       IN  /\ layers' = WithoutLayer(layers, layerId)
           /\ IF selectedLayerId = layerId
              THEN /\ selectedLayerId' = NextSelection(WithoutLayer(layers, layerId))
                   /\ featurePending' = TRUE
              ELSE UNCHANGED <<selectedLayerId, featurePending>>
           /\ UNCHANGED <<editMode, effectPending, reads, uploads, toggles,
                          alerted, turfBackfill, restVars, notAppVars>>

\* handleClear, behind a button that is disabled without layers
HandleClear ==
    /\ Len(layers) > 0
    /\ layers' = << >>
    /\ selectedLayerId' = NoSelection
    /\ isEditModeActive' = FALSE
    /\ editedPoints' = NullPoints
    /\ featurePending' = (featurePending \/ HasSelectedLayer)
    /\ UNCHANGED <<editMode, effectPending, reads, uploads, toggles, alerted,
                   turfBackfill, searches, downloaded, mapPoints, drags,
                   sidebarVars, notAppVars>>

\* layers.find(l => l.id === selectedLayerId), << >> for undefined
SelectedLayers ==
    SelectSeq(layers, LAMBDA layer : layer.id = selectedLayerId)

\* the layers a download without layerId writes: the selected layer when
\* there is one, all layers otherwise
DownloadTarget ==
    IF SelectedLayers # << >> THEN <<SelectedLayers[1]>> ELSE layers

\* the download was stopped by an uncaught TypeError of toKML
ExportThrew == [name |-> "TypeError", features |-> 0]

\* handleDownloadKml(), as the Sidebar calls it: behind a button that is
\* disabled without layers; the file holds one Placemark per written layer
HandleDownloadKml ==
    /\ Len(layers) > 0
    /\ downloaded' =
          IF \E k \in 1..Len(DownloadTarget) : ToKMLThrows(DownloadTarget[k].geometry)
          THEN ExportThrew
          ELSE [name |-> IF SelectedLayers # << >> THEN "layer.kml" ELSE "all-layers.kml",
                features |-> Len(DownloadTarget)]
    /\ UNCHANGED <<appVars, featurePending, searches, editVars, sidebarVars,
                   notAppVars>>

\* handleDownloadGeoJson(), as the Sidebar calls it: the file holds the
\* feature of the selected layer, or the FeatureCollection of all layers
HandleDownloadGeoJson ==
    /\ Len(layers) > 0
    /\ downloaded' =
          [name |-> IF SelectedLayers # << >> THEN "layer.json" ELSE "all-layers.json",
           features |-> Len(DownloadTarget)]
    /\ UNCHANGED <<appVars, featurePending, searches, editVars, sidebarVars,
                   notAppVars>>

\* the file of the layer list: one Placemark with a MultiGeometry, which
\* gives two features
LayerDocuments ==
    {doc \in AppDocuments :
        /\ doc.wellFormed
        /\ doc.kmlNamespace
        /\ Len(ParseKML(doc).features) > 1}

\* the search result of the layer list: a square
LayerSearchResults == {Polygon(<<RingA>>)}

\* fewer than MaxAdds search results and uploads so far
MayAdd == searches + uploads < MaxAdds

\* a search result is clicked
AddSearchResult ==
    /\ MayAdd
    /\ \E g \in LayerSearchResults : HandleSearchResult(g)

\* a file is chosen
AddUpload ==
    /\ MayAdd
    /\ \E doc \in LayerDocuments : HandleKMLUpload(doc)

\* the first render of the App when the turf calls of the backfill fail
LayerInit == AppInit /\ turfBackfill = NoGeometry

LayerNext ==
    \/ AddSearchResult
    \/ AddUpload
    \/ ReaderOnload
    \/ SelectLayer
    \/ HandleLayerDelete
    \/ HandleClear

\* the layer list alone: additions, selection, deletion; editMode stays
\* 'accurate'
LayerSpec == LayerInit /\ [][LayerNext]_vars

ExportNext ==
    \/ \E g \in SearchResults : HandleSearchResult(g)
    \/ SelectLayer
    \/ HandleLayerDelete
    \/ HandleDownloadKml
    \/ HandleDownloadGeoJson

\* search results added, selected, deleted and exported
ExportSpec == LayerInit /\ [][ExportNext]_vars

\* C22: as long as no more than 8 layers are present at once, no two
\* layers present at the same time have the same color.
C22_ColorsUnique ==
    Len(layers) <= PaletteSize =>
        \A k, l \in 1..Len(layers) : k # l => layers[k].color # layers[l].color

\* C23: with 2 or more layers, a download started by an export button of
\* the Sidebar takes the all-layers branch and its file holds the features
\* of all layers.
C23_ExportAllLayers ==
    [][(downloaded' # downloaded /\ Len(layers) >= 2) =>
          /\ downloaded'.name \in {"all-layers.kml", "all-layers.json"}
          /\ downloaded'.features = Len(layers)]_vars

\* selectedLayerId is null or names a layer of layers, and it is not null
\* when there is a layer
SelectionValid ==
    /\ selectedLayerId = NoSelection \/ HasSelectedLayer
    /\ Len(layers) > 0 => selectedLayerId # NoSelection

\* this step removes the selected layer from layers
SelectedLayerRemoved ==
    /\ HasSelectedLayer
    /\ layers' = WithoutLayer(layers, selectedLayerId)

\* C26: selectedLayerId is null or the id of a layer in layers, and it is
\* not null when layers is not empty; a step that removes the selected layer
\* leaves the first remaining layer selected, or nothing when none remains.
C26_SelectionFollowsLayers ==
    /\ []SelectionValid
    /\ [][SelectedLayerRemoved =>
             selectedLayerId' = IF Len(layers') > 0 THEN layers'[1].id
                                ELSE NoSelection]_vars

\* C26 witness: a search result and the two layers of a file were added,
\* the first layer of the file is gone, and the selection is on the search
\* result, the first of the two layers that remain
C26_Witness ==
    /\ Len(layers) = 2
    /\ layers[1].id = <<0, 1>>
    /\ layers[2].id = <<1, 2>>
    /\ selectedLayerId = <<0, 1>>

(* ------------------- App.tsx and MapComponent.tsx: editing -------------- *)

\* coords.map(c => [c[1], c[0]]): [lon, lat] positions as [lat, lng] points,
\* and back
SwapPairs(list) == [k \in 1..Len(list) |-> <<list[k][2], list[k][1]>>]

\* the feature of the selected layer, NoGeometry for no selected layer
SelectedGeometry ==
    IF SelectedLayers # << >> THEN SelectedLayers[1].geometry ELSE NoGeometry

\* the effect of [feature]: the points of the first ring of the feature, []
\* when there is no feature, no first ring or no position
FeaturePoints(geom) ==
    IF geom.type = "Polygon"
    THEN (IF Len(geom.coordinates) > 0 THEN SwapPairs(geom.coordinates[1]) ELSE << >>)
    ELSE IF geom.type = "MultiPolygon"
    THEN (IF Len(geom.coordinates) > 0 /\ Len(geom.coordinates[1]) > 0
          THEN SwapPairs(geom.coordinates[1][1]) ELSE << >>)
    ELSE << >>

\* the effect of [feature] of the MapComponent: setPoints, and
\* onPointsChange, which is handlePointsChange: setEditedPoints(points)
MapEffect ==
    /\ featurePending
    /\ featurePending' = FALSE
    /\ mapPoints' = FeaturePoints(SelectedGeometry)
    /\ editedPoints' = SomePoints(FeaturePoints(SelectedGeometry))
    /\ UNCHANGED <<appVars, searches, downloaded, isEditModeActive, drags,
                   sidebarVars, notAppVars>>

\* geom.coordinates[0] is undefined (or geom.coordinates[0][0] is), and
\* coords.map raises a TypeError
FirstRingMissing(geom) ==
    \/ geom.type = "Polygon" /\ Len(geom.coordinates) = 0
    \/ /\ geom.type = "MultiPolygon"
       /\ (Len(geom.coordinates) = 0 \/ Len(geom.coordinates[1]) = 0)

\* the points of the first ring as handleEditModeToggle and
\* handleRegeneratePolygon read them from the geometry
GeometryPoints(geom) ==
    IF geom.type = "Polygon" THEN SwapPairs(geom.coordinates[1])
    ELSE IF geom.type = "MultiPolygon" THEN SwapPairs(geom.coordinates[1][1])
    ELSE << >>

\* handleEditModeToggle(active): on entering with a selected layer,
\* editedPoints are the points of its first ring (a TypeError leaves them as
\* they are); otherwise they are reset
HandleEditModeToggle(active) ==
    /\ isEditModeActive' = active
    /\ IF active /\ SelectedLayers # << >>
       THEN IF FirstRingMissing(SelectedGeometry)
            THEN UNCHANGED editedPoints
            ELSE editedPoints' = SomePoints(GeometryPoints(SelectedGeometry))
       ELSE editedPoints' = NullPoints
    /\ UNCHANGED <<appVars, featurePending, searches, downloaded, mapPoints,
                   drags, sidebarVars, notAppVars>>

\* where a vertex is dropped
DragTargets == {<<2, 2>>}

\* the markers that are dragged: the first, the second and the last one
DragIndexes(list) == {k \in {0, 1, Len(list) - 1} : k >= 0 /\ k < Len(list)}

\* the last point has no marker when it is the first point again
LastIsDuplicate(list) ==
    /\ Len(list) > 1
    /\ Abs(list[Len(list)][1] - list[1][1]) < 1
    /\ Abs(list[Len(list)][2] - list[1][2]) < 1

\* handleDragEnd(index, latLng) on a marker, which exist for the selected
\* layer while vertex editing is on: the point replaced, the first and the
\* last point kept the same, and onPointsChange
HandleDragEnd ==
    /\ drags < MaxDrags
    /\ isEditModeActive
    /\ SelectedLayers # << >>
    /\ \E index \in DragIndexes(mapPoints), latLng \in DragTargets :
          /\ ~(index = Len(mapPoints) - 1 /\ LastIsDuplicate(mapPoints))
          /\ LET moved == [mapPoints EXCEPT ![index + 1] = latLng]
                 lastToo == IF index = 0 /\ Len(moved) > 1
                            THEN [moved EXCEPT ![Len(moved)] = latLng] ELSE moved
                 newPoints == IF index = Len(lastToo) - 1 /\ Len(lastToo) > 1
                              THEN [lastToo EXCEPT ![1] = latLng] ELSE lastToo
             IN  /\ mapPoints' = newPoints
                 /\ editedPoints' = SomePoints(newPoints)
    /\ drags' = drags + 1
    /\ UNCHANGED <<appVars, featurePending, searches, downloaded,
                   isEditModeActive, sidebarVars, notAppVars>>

NoLayerSelectedAlert == "No layer selected"

LayerNotFoundAlert == "Selected layer not found"

TooFewPointsAlert == "Need at least 3 points to create a polygon"

\* variant of ClosedPoints: the first point is always pushed
ClosedPointsAlways(list) == Append(list, list[1])

\* closedPoints: the first point pushed again when the last one is more
\* than 0.0001 away from it in latitude or longitude (coordinates are whole
\* degrees here, so that is any difference)
ClosedPoints(list) ==
    IF Abs(list[1][1] - list[Len(list)][1]) > 0
       \/ Abs(list[1][2] - list[Len(list)][2]) > 0
    THEN Append(list, list[1])
    ELSE list

\* layers.map(layer => layer.id === layerId ? {...layer, feature} : layer)
WithGeometry(list, id, geom) ==
    [k \in 1..Len(list) |->
        IF list[k].id = id THEN [list[k] EXCEPT !.geometry = geom] ELSE list[k]]

\* handleRegeneratePolygon: the three alerts, the points closed and turned
\* into the one ring of the selected layer's Polygon, vertex editing left
HandleRegeneratePolygon ==
    /\ IF selectedLayerId = NoSelection
       THEN /\ alerted' = NoLayerSelectedAlert
            /\ UNCHANGED <<layers, isEditModeActive, editedPoints, featurePending>>
       ELSE IF SelectedLayers = << >>
       THEN /\ alerted' = LayerNotFoundAlert
            /\ UNCHANGED <<layers, isEditModeActive, editedPoints, featurePending>>
       ELSE IF editedPoints.null /\ FirstRingMissing(SelectedGeometry)
       THEN UNCHANGED <<alerted, layers, isEditModeActive, editedPoints,
                        featurePending>>
       ELSE LET pointsToUse == IF ~editedPoints.null THEN editedPoints.list
                               ELSE GeometryPoints(SelectedGeometry)
            IN  IF Len(pointsToUse) < 3
                THEN /\ alerted' = TooFewPointsAlert
                     /\ UNCHANGED <<layers, isEditModeActive, editedPoints,
                                    featurePending>>
                ELSE /\ layers' = WithGeometry(layers, selectedLayerId,
                            Polygon(<<SwapPairs(ClosedPoints(pointsToUse))>>))
                     /\ isEditModeActive' = FALSE
                     /\ editedPoints' = NullPoints
                     /\ featurePending' = TRUE
                     /\ UNCHANGED alerted
    /\ UNCHANGED <<selectedLayerId, editMode, effectPending, reads, uploads,
                   toggles, turfBackfill, searches, downloaded, mapPoints,
                   drags, sidebarVars, notAppVars>>

\* what the turf calls give in the runs with vertex editing: a failure, or
\* two parts
EditBackfills ==
    {NoGeometry, MultiPolygon(<< <<BackRing2>>, <<BackRing1, BackHole>> >>)}

EditInit == AppInit /\ turfBackfill \in EditBackfills

\* the search results clicked in the runs with vertex editing: a point, a
\* ring of 3 positions, and two parts, one of them with a hole
EditSearchResults ==
    { [type |-> "Point", coordinates |-> <<5, 5>>],
      Polygon(<<RingS3>>),
      MultiPolygon(<< <<RingA>>, <<RingT, HoleH>> >>) }

\* a click on a search result
\* the clicks on search results and the drags of one run
MayEdit == searches + drags < MaxEditSteps

EditSearch == MayEdit /\ \E g \in EditSearchResults : HandleSearchResult(g)

\* a marker dragged and dropped
EditDrag == MayEdit /\ HandleDragEnd

EditNext ==
    \/ EditSearch
    \/ ToggleMode
    \/ ModeEffect
    \/ MapEffect
    \/ \E active \in BOOLEAN : HandleEditModeToggle(active)
    \/ EditDrag
    \/ HandleRegeneratePolygon

\* search results, mode changes and vertex editing
EditSpec == EditInit /\ [][EditNext]_vars

\* the points handleRegeneratePolygon uses in this state
PointsToUse ==
    IF ~editedPoints.null THEN editedPoints.list
    ELSE GeometryPoints(SelectedGeometry)

\* handleRegeneratePolygon updates the selected layer in this step
RegenerateUpdates ==
    /\ SelectedLayers # << >>
    /\ ~(editedPoints.null /\ FirstRingMissing(SelectedGeometry))
    /\ Len(PointsToUse) >= 3
    /\ layers' = WithGeometry(layers, selectedLayerId,
                    Polygon(<<SwapPairs(ClosedPoints(PointsToUse))>>))
    /\ isEditModeActive' = FALSE
    /\ editedPoints' = NullPoints
    /\ featurePending' = TRUE
    /\ UNCHANGED <<selectedLayerId, editMode, effectPending, searches, toggles,
                   drags, mapPoints, alerted>>

\* the geometry of the layer of this id in the list
GeometryOf(list, id) ==
    list[CHOOSE k \in 1..Len(list) : list[k].id = id].geometry

\* a closed ring of at least 4 positions
IsValidRing(ring) ==
    /\ Len(ring) >= MinRingLen
    /\ ring[1] = ring[Len(ring)]

\* C24 as claimed: whenever handleRegeneratePolygon updates a layer, the
\* geometry of the selected layer becomes a Polygon of exactly one ring, and
\* that ring is closed and has at least 4 positions.
C24_RegeneratedRingValid ==
    [][RegenerateUpdates =>
          LET g == GeometryOf(layers', selectedLayerId)
          IN  /\ g.type = "Polygon"
              /\ Len(g.coordinates) = 1
              /\ IsValidRing(g.coordinates[1])]_vars

\* the effect of [editMode] runs in this step
EffectRuns == effectPending /\ ~effectPending'

\* C25: when the effect of an editMode change has run, the geometry of every
\* layer is the pipeline's result for the layer's originalGeoJson under the
\* new mode, whatever the geometry was before: one that
\* handleRegeneratePolygon set is replaced, and the mode toggled away and
\* back gives the geometry first computed in that mode again.
C25_EffectReprocessesOriginal ==
    [][EffectRuns =>
          \A k \in 1..Len(layers') :
             layers'[k].geometry =
                Process(layers'[k].originalGeoJson, editMode').geometry]_vars

\* the point where DragTargets puts a marker is among the points
HasDraggedPoint(list) == \E k \in 1..Len(list) : list[k] \in DragTargets

\* C25 witness: a vertex of the two-part search result was dragged and the
\* polygon regenerated (vertex editing is off and the map effect has
\* reported the regenerated ring, which has the dragged point); then the
\* mode was changed and its effect has put the re-processed original back,
\* which does not have that point
C25_Witness ==
    /\ Len(layers) = 1
    /\ layers[1].originalGeoJson.type = "MultiPolygon"
    /\ drags = 1
    /\ ~isEditModeActive
    /\ ~editedPoints.null
    /\ HasDraggedPoint(editedPoints.list)
    /\ toggles = 1
    /\ editMode = "approximate"
    /\ ~effectPending
    /\ layers[1].geometry = Process(layers[1].originalGeoJson, "approximate").geometry
    /\ ~HasDraggedPoint(FeaturePoints(layers[1].geometry))

C28_NoPointsOutsideEditing ==
    ~isEditModeActive => editedPoints.null

(* --------------------------- Sidebar.tsx: search ------------------------ *)

\* what is typed into the search box
Queries == {"", " ", "pune", "goa"}

\* !query.trim()
IsBlank(q) == q \in {"", " "}

\* onChange of the search box: setQuery(e.target.value)
SetQuery ==
    /\ \E q \in Queries : q # query /\ query' = q
    /\ UNCHANGED <<requests, results, loading, submitted, appVars,
                   featurePending, searches, downloaded, editVars, notAppVars>>

\* handleSearch up to its first await: the return for a blank query,
\* setLoading(true) and the fetch of the query sent
HandleSearch ==
    /\ Len(submitted) < MaxQueries
    /\ IF IsBlank(query)
       THEN UNCHANGED <<requests, loading, submitted>>
       ELSE /\ submitted' = Append(submitted, [q |-> query, outcome |-> "pending"])
            /\ requests' = requests \cup {Len(submitted) + 1}
            /\ loading' = TRUE
    /\ UNCHANGED <<query, results, appVars, featurePending, searches,
                   downloaded, editVars, notAppVars>>

\* the rest of handleSearch for one fetch that is answered: setResults(data)
\* with the data of that fetch, and setLoading(false) in the finally block
SearchFulfilled ==
    \E n \in requests :
       /\ requests' = requests \ {n}
       /\ submitted' = [submitted EXCEPT ![n].outcome = "fulfilled"]
       /\ results' = [n |-> n, q |-> submitted[n].q]
       /\ loading' = FALSE
       /\ UNCHANGED <<query, appVars, featurePending, searches, downloaded,
                      editVars, notAppVars>>

\* the rest of handleSearch for one fetch that fails: the catch block logs,
\* and setLoading(false) in the finally block
SearchRejected ==
    \E n \in requests :
       /\ requests' = requests \ {n}
       /\ submitted' = [submitted EXCEPT ![n].outcome = "rejected"]
       /\ loading' = FALSE
       /\ UNCHANGED <<query, results, appVars, featurePending, searches,
                      downloaded, editVars, notAppVars>>

SidebarInit == AppInit /\ turfBackfill = NoGeometry

SidebarNext ==
    \/ SetQuery
    \/ HandleSearch
    \/ SearchFulfilled
    \/ SearchRejected

\* the search box of the Sidebar and the fetches it starts
SidebarSpec == SidebarInit /\ [][SidebarNext]_vars

\* every fetch has settled and the one submitted last was answered
AllSettledLastAnswered ==
    /\ requests = {}
    /\ Len(submitted) > 0
    /\ submitted[Len(submitted)].outcome = "fulfilled"

\* C29 as claimed: once every search has completed, the results shown are
\* those of the query submitted last, and the response of an older search
\* never replaces the results of a newer search for another query.
C29_LatestSearchShown ==
    /\ [](AllSettledLastAnswered => results.q = submitted[Len(submitted)].q)
    /\ [][results'.n < results.n => results'.q = results.q]_vars

\* C30 as claimed: toKML returns document text for every geometry the
\* pipeline has given a layer, the Polygon with coordinates [] included, and
\* no export of a layer fails.
C30_ExportNeverFails ==
    /\ \A k \in 1..Len(layers) : ~ToKMLThrows(layers[k].geometry)
    /\ downloaded # ExportThrew

====
